---- MODULE Spec2Model ----
(***************************************************************************)
(* Model of Main.c, the thermistor lookup-table calculator.                *)
(*                                                                         *)
(* The program's arithmetic is IEEE-754 binary64 ("double").  TLC's        *)
(* integers are 32 bits wide, so natural numbers of arbitrary size are     *)
(* kept as little-endian sequences of 15-bit limbs, and a double is a      *)
(* record over such a mantissa.  Every double operation is computed on the *)
(* exact integers and rounded once, to nearest, ties to even, as the       *)
(* hardware does.                                                          *)
(***************************************************************************)
EXTENDS Integers, Sequences, FiniteSets, TLC

(***************************************************************************)
(* Natural numbers of arbitrary size: <<l1, ..., lk>> is the number        *)
(* l1 + l2*LimbBase + ... , with no zero limb at the top; <<>> is zero.    *)
(***************************************************************************)
LimbBits == 15
LimbBase == 32768

Max(a, b) == IF a >= b THEN a ELSE b
Min(a, b) == IF a <= b THEN a ELSE b

\* e, with v evaluated first.  TLC defers the evaluation of an operator's
\* arguments, and evaluates a deferred tuple anew each time an element of it
\* is taken.  A recursion that hands on an accumulator, and an operator that
\* takes a tuple apart, evaluate it once through Strict.
Strict(v, e) == IF v = v THEN e ELSE e

\* 2^k, for k in 0 .. LimbBits.
Pow2(k) ==
    <<1, 2, 4, 8, 16, 32, 64, 128, 256, 512, 1024, 2048, 4096, 8192, 16384, 32768>>[k + 1]

Limb(a, i) == IF i >= 1 /\ i <= Len(a) THEN a[i] ELSE 0

RECURSIVE BTrim(_)
BTrim(a) ==
    IF a = <<>> THEN <<>>
    ELSE IF a[Len(a)] = 0 THEN BTrim(SubSeq(a, 1, Len(a) - 1))
    ELSE a

RECURSIVE BFromInt(_)
BFromInt(n) == IF n = 0 THEN <<>> ELSE <<n % LimbBase>> \o BFromInt(n \div LimbBase)

\* The value of a number below 2^31 as an integer.
BToInt(a) == Limb(a, 1) + LimbBase * Limb(a, 2) + LimbBase * LimbBase * Limb(a, 3)

RECURSIVE BCmpFrom(_, _, _)
BCmpFrom(a, b, i) ==
    IF i = 0 THEN 0
    ELSE IF a[i] < b[i] THEN -1
    ELSE IF a[i] > b[i] THEN 1
    ELSE BCmpFrom(a, b, i - 1)

\* -1, 0 or 1 as a < b, a = b, a > b.
BCmp(a, b) ==
    IF Len(a) < Len(b) THEN -1
    ELSE IF Len(a) > Len(b) THEN 1
    ELSE BCmpFrom(a, b, Len(a))

RECURSIVE BAddFrom(_, _, _, _)
BAddFrom(a, b, i, c) ==
    IF i > Len(a) /\ i > Len(b)
    THEN (IF c = 0 THEN <<>> ELSE <<c>>)
    ELSE LET s == Limb(a, i) + Limb(b, i) + c
         IN  <<s % LimbBase>> \o BAddFrom(a, b, i + 1, s \div LimbBase)

BAdd(a, b) == BAddFrom(a, b, 1, 0)

RECURSIVE BSubFrom(_, _, _, _)
BSubFrom(a, b, i, c) ==
    IF i > Len(a) THEN <<>>
    ELSE LET s == a[i] - Limb(b, i) - c
         IN  IF s < 0 THEN <<s + LimbBase>> \o BSubFrom(a, b, i + 1, 1)
                      ELSE <<s>> \o BSubFrom(a, b, i + 1, 0)

\* a - b, for a >= b.
BSub(a, b) == BTrim(BSubFrom(a, b, 1, 0))

RECURSIVE BMulSmallFrom(_, _, _, _)
BMulSmallFrom(a, k, i, c) ==
    IF i > Len(a)
    THEN (IF c = 0 THEN <<>> ELSE <<c>>)
    ELSE LET s == a[i] * k + c
         IN  <<s % LimbBase>> \o BMulSmallFrom(a, k, i + 1, s \div LimbBase)

\* a * k, for 0 <= k < LimbBase.
BMulSmall(a, k) == IF k = 0 THEN <<>> ELSE BMulSmallFrom(a, k, 1, 0)

Zeros(n) == [i \in 1..n |-> 0]

\* a * LimbBase^n
BShlLimbs(a, n) == IF a = <<>> THEN <<>> ELSE Zeros(n) \o a

\* The sum, over the limbs i .. hi of a, of what the products a[i] * b[j]
\* give to limb k of a * b: the low half of those with i + j = k + 1 and the
\* high half of those with i + j = k.
RECURSIVE BMulColumn(_, _, _, _, _)
BMulColumn(a, b, k, i, hi) ==
    IF i > hi THEN 0
    ELSE (IF k + 1 - i <= Len(b) THEN (a[i] * b[k + 1 - i]) % LimbBase ELSE 0)
         + (IF k - i >= 1 THEN (a[i] * b[k - i]) \div LimbBase ELSE 0)
         + BMulColumn(a, b, k, i + 1, hi)

\* The number whose limbs, before the carries, are cols[i], cols[i + 1], ...
RECURSIVE BCarry(_, _, _)
BCarry(cols, i, c) ==
    IF i > Len(cols) THEN BFromInt(c)
    ELSE <<(cols[i] + c) % LimbBase>> \o BCarry(cols, i + 1, (cols[i] + c) \div LimbBase)

BMul(a, b) ==
    IF a = <<>> \/ b = <<>> THEN <<>>
    ELSE BTrim(BCarry([k \in 1..(Len(a) + Len(b)) |->
                         BMulColumn(a, b, k, Max(1, k - Len(b)), Min(Len(a), k))],
                      1, 0))

\* a * 2^k
BShl(a, k) == BShlLimbs(BMulSmall(a, Pow2(k % LimbBits)), k \div LimbBits)

\* floor(a / 2^k)
BShr(a, k) ==
    LET q == k \div LimbBits
        r == k % LimbBits
        lo == Pow2(r)
        hi == Pow2(LimbBits - r)
    IN  IF q >= Len(a) THEN <<>>
        ELSE BTrim([i \in 1..(Len(a) - q) |->
                      (a[i + q] \div lo) + (Limb(a, i + q + 1) % lo) * hi])

\* a mod 2^k is not zero.
BLowBits(a, k) ==
    LET q == k \div LimbBits
        r == k % LimbBits
    IN  \/ \E i \in 1..Min(q, Len(a)) : a[i] # 0
        \/ Limb(a, q + 1) % Pow2(r) # 0

\* Bit k (from 0) of a.
BBit(a, k) == (Limb(a, (k \div LimbBits) + 1) \div Pow2(k % LimbBits)) % 2

RECURSIVE IntBitLen(_)
IntBitLen(n) == IF n = 0 THEN 0 ELSE 1 + IntBitLen(n \div 2)

\* The number of bits of a: the least n with a < 2^n.
BBitLen(a) == IF a = <<>> THEN 0 ELSE LimbBits * (Len(a) - 1) + IntBitLen(a[Len(a)])

BIsOdd(a) == Limb(a, 1) % 2 = 1

\* The number a * LimbBase + d: the limb d below the limbs of a.
BBelow(d, a) == IF a = <<>> /\ d = 0 THEN <<>> ELSE <<d>> \o a

\* The first guess at the digit floor(r / b), for r < b * LimbBase: from the
\* top two limbs of r and the top limb of b.  That limb of b is LimbBase/2
\* or more, and the guess is then at most two too large (Knuth, The Art of
\* Computer Programming, 4.3.1, Theorem B).
QuotGuess(r, b) ==
    Min((Limb(r, Len(b) + 1) * LimbBase + Limb(r, Len(b))) \div b[Len(b)],
        LimbBase - 1)

\* The digit floor(r / b): the largest d <= guess with d * b <= r.
RECURSIVE QuotDigit(_, _, _)
QuotDigit(r, b, guess) ==
    IF BCmp(BMulSmall(b, guess), r) <= 0 THEN guess ELSE QuotDigit(r, b, guess - 1)

\* Long division, one limb of the dividend at a time, from the top: q and r
\* are the quotient and the remainder of the limbs above limb i.
RECURSIVE BDivModFrom(_, _, _, _, _)
RECURSIVE BDivModLimb(_, _, _, _, _)
RECURSIVE BDivModDigit(_, _, _, _, _, _)
BDivModFrom(a, b, i, q, r) ==
    IF i = 0 THEN <<q, r>> ELSE BDivModLimb(a, b, i, q, BBelow(a[i], r))

\* ... with limb i taken into the remainder r
BDivModLimb(a, b, i, q, r) ==
    BDivModDigit(a, b, i, q, r, QuotDigit(r, b, QuotGuess(r, b)))

\* ... and d the digit of the quotient it gives
BDivModDigit(a, b, i, q, r, d) ==
    Strict(<<d, q>>, BDivModFrom(a, b, i - 1, BBelow(d, q), BSub(r, BMulSmall(b, d))))

\* The division of a1 by b1, where the top limb of b1 is LimbBase/2 or more.
\* The top limbs of a1, one fewer than b1 has, are below b1: they are the
\* first remainder.
BDivModScaled(a1, b1) ==
    IF Len(a1) < Len(b1) THEN <<(<<>>), a1>>
    ELSE BDivModFrom(a1, b1, Len(a1) - Len(b1) + 1, <<>>,
                     SubSeq(a1, Len(a1) - Len(b1) + 2, Len(a1)))

\* The quotient and the remainder qr of a * 2^sh by b * 2^sh as those of a
\* by b.
BDivModUnscaled(qr, sh) == Strict(qr, <<qr[1], BShr(qr[2], sh)>>)

\* The power of two that brings the top limb of b to LimbBase/2 or more.
BDivScale(b) == LimbBits - IntBitLen(Limb(b, Len(b)))

\* <<floor(a / b), a mod b>>, for b > 0.
BDivMod(a, b) ==
    BDivModUnscaled(BDivModScaled(BShl(a, BDivScale(b)), BShl(b, BDivScale(b))),
                    BDivScale(b))

RECURSIVE BDivSmallFrom(_, _, _, _)
BDivSmallFrom(a, k, i, r) ==
    IF i = 0 THEN <<>>
    ELSE LET n == r * LimbBase + a[i]
         IN  BDivSmallFrom(a, k, i - 1, n % k) \o <<n \div k>>

\* floor(a / k), for 0 < k < LimbBase.
BDivSmall(a, k) == BTrim(BDivSmallFrom(a, k, Len(a), 0))

\* a * a
BSquare(a) == Strict(a, BMul(a, a))

RECURSIVE BPow10(_)
RECURSIVE BPow5(_)
BPow10(k) ==
    IF k = 0 THEN <<1>>
    ELSE IF k % 2 = 0 THEN BSquare(BPow10(k \div 2))
    ELSE BMulSmall(BSquare(BPow10(k \div 2)), 10)

BPow5(k) ==
    IF k = 0 THEN <<1>>
    ELSE IF k % 2 = 0 THEN BSquare(BPow5(k \div 2))
    ELSE BMulSmall(BSquare(BPow5(k \div 2)), 5)

(***************************************************************************)
(* The C type double.  A finite double is (-1)^s * m * 2^e with m below    *)
(* 2^53; it is kept in the one form the format has for it: m of exactly 53 *)
(* bits and e >= -1074 (normal), or e = -1074 and m shorter (subnormal),   *)
(* or m = 0 and e = 0 (zero, of either sign).                              *)
(***************************************************************************)
MantBits == 53
MinExp == -1074
MaxExp == 971
AlignMax == 64

NaN == [e |-> 0, k |-> "nan", s |-> 0, m |-> <<>>]
Inf(s) == [e |-> 0, k |-> "inf", s |-> s, m |-> <<>>]
Zero(s) == [e |-> 0, k |-> "fin", s |-> s, m |-> <<>>]
\* The double (-1)^s * m * 2^e, for m and e in the form above.
Double(s, m, e) == [e |-> e, k |-> "fin", s |-> s, m |-> m]

IsNaN(x) == x.k = "nan"
IsInf(x) == x.k = "inf"
IsZero(x) == x.k = "fin" /\ x.m = <<>>
SignXor(a, b) == (a.s + b.s) % 2

\* The double (-1)^s * m * 2^e, for m of MantBits bits or fewer, or of one
\* bit more and even (what a rounding up to the next power of two leaves);
\* an infinity when that is beyond the largest double.
FPack(s, m, e) ==
    IF m = <<>> THEN Zero(s)
    ELSE IF BBitLen(m) > MantBits
    THEN (IF e + 1 > MaxExp THEN Inf(s)
          ELSE [e |-> e + 1, k |-> "fin", s |-> s, m |-> BShr(m, 1)])
    ELSE IF e > MaxExp THEN Inf(s)
    ELSE [e |-> e, k |-> "fin", s |-> s, m |-> m]

\* The integer nearest to M / 2^sh, ties to even, for sh > 0; q is
\* floor(M / 2^sh).
BRoundedShr(M, sh, q) ==
    IF BBit(M, sh - 1) = 1 /\ (BLowBits(M, sh - 1) \/ BIsOdd(q))
    THEN BAdd(q, <<1>>)
    ELSE q

\* The integer nearest to M * 2^e, ties to even.
BRounded(M, e) == IF e >= 0 THEN BShl(M, e) ELSE BRoundedShr(M, -e, BShr(M, -e))

\* The double nearest to (-1)^s * M * 2^E, with the exponent e1 the format
\* gives a number of that size.
FRoundTo(s, M, E, e1) == FPack(s, BRounded(M, E - e1), e1)

\* The double nearest to (-1)^s * M * 2^E, ties to even; an infinity when
\* that is beyond the largest double.
FRound(s, M, E) ==
    IF M = <<>> THEN Zero(s)
    ELSE FRoundTo(s, M, E, Max(E + BBitLen(M) - MantBits, MinExp))

\* <<floor(N / D), a bit that tells whether N / D has a remainder>> as one
\* number: 2 * floor(N / D) + that bit, from the quotient and remainder qr.
BSticky(qr) ==
    Strict(qr, BAdd(BMulSmall(qr[1], 2), IF qr[2] = <<>> THEN <<>> ELSE <<1>>))

\* The double nearest to (-1)^s * (N / D) * 2^E, where N * 2^k / D has 56
\* bits or more.
RoundQuotBy(s, N, D, E, k) == FRound(s, BSticky(BDivMod(BShl(N, k), D)), E - k - 1)

\* The double nearest to (-1)^s * (N / D) * 2^E, for N, D > 0: the quotient
\* to 56 bits or more, and one more bit that records a remainder.
RoundQuot(s, N, D, E) == RoundQuotBy(s, N, D, E, Max(0, 56 + BBitLen(D) - BBitLen(N)))

\* a * b
FMul(a, b) ==
    IF IsNaN(a) \/ IsNaN(b) THEN NaN
    ELSE IF (IsInf(a) /\ IsZero(b)) \/ (IsZero(a) /\ IsInf(b)) THEN NaN
    ELSE IF IsInf(a) \/ IsInf(b) THEN Inf(SignXor(a, b))
    ELSE FRound(SignXor(a, b), BMul(a.m, b.m), a.e + b.e)

\* a / b; a division by zero gives an infinity, 0/0 a NaN, and raises nothing.
FDiv(a, b) ==
    IF IsNaN(a) \/ IsNaN(b) THEN NaN
    ELSE IF (IsInf(a) /\ IsInf(b)) \/ (IsZero(a) /\ IsZero(b)) THEN NaN
    ELSE IF IsInf(a) \/ IsZero(b) THEN Inf(SignXor(a, b))
    ELSE IF IsInf(b) \/ IsZero(a) THEN Zero(SignXor(a, b))
    ELSE RoundQuot(SignXor(a, b), a.m, b.m, a.e - b.e)

FNeg(a) == IF IsNaN(a) THEN NaN ELSE [a EXCEPT !.s = 1 - a.s]

\* The sum of the finite, nonzero a and b, of which A * 2^E and B * 2^E are
\* the sizes.
FAddAligned(a, b, A, B, E) ==
    IF a.s = b.s THEN FRound(a.s, BAdd(A, B), E)
    ELSE IF BCmp(A, B) = 0 THEN Zero(0)
    ELSE IF BCmp(A, B) > 0 THEN FRound(a.s, BSub(A, B), E)
    ELSE FRound(b.s, BSub(B, A), E)

\* The sum of the finite, nonzero a and b in units of 2^E.  An operand whose
\* exponent is below E cannot reach half a unit of the result's last place:
\* all that matters of it is that it is not zero.
FAddAt(a, b, E) ==
    FAddAligned(a, b,
                IF a.e < E THEN <<1>> ELSE BShl(a.m, a.e - E),
                IF b.e < E THEN <<1>> ELSE BShl(b.m, b.e - E),
                E)

\* a + b
FAdd(a, b) ==
    IF IsNaN(a) \/ IsNaN(b) THEN NaN
    ELSE IF IsInf(a) /\ IsInf(b) THEN (IF a.s = b.s THEN a ELSE NaN)
    ELSE IF IsInf(a) THEN a
    ELSE IF IsInf(b) THEN b
    ELSE IF IsZero(a) /\ IsZero(b) THEN Zero(IF a.s = 1 /\ b.s = 1 THEN 1 ELSE 0)
    ELSE IF IsZero(a) THEN b
    ELSE IF IsZero(b) THEN a
    ELSE IF a.e - b.e > AlignMax \/ b.e - a.e > AlignMax
    THEN FAddAt(a, b, Max(a.e, b.e) - AlignMax)
    ELSE FAddAt(a, b, Min(a.e, b.e))

\* a - b
FSub(a, b) == FAdd(a, FNeg(b))

\* The conversion of an unsigned integer to double.
FFromNat(n) == FRound(0, n, 0)

\* The double nearest to the decimal (-1)^s * D / 10^k: what a decimal
\* constant of the source, and a decimal number read by sscanf, stand for.
FDecimal(s, D, k) == IF D = <<>> THEN Zero(s) ELSE RoundQuot(s, D, BPow10(k), 0)

\* The double nearest to the decimal (-1)^s * D * 10^e10, where D is written
\* in nd digits: what strtod() makes of a decimal number with an exponent.
\* 10^309 and more is beyond the largest double and gives an infinity; less
\* than 10^-325 is below half the least double and gives zero.
FDecimalScaled(s, D, e10, nd) ==
    IF Strict(<<D, e10>>, D = <<>>) THEN Zero(s)
    ELSE IF e10 >= 309 THEN Inf(s)
    ELSE IF e10 + nd <= -325 THEN Zero(s)
    ELSE IF e10 >= 0 THEN FRound(s, BMul(D, BPow5(e10)), e10)
    ELSE RoundQuot(s, D, BPow5(-e10), e10)

\* -1, 0, 1 as |a| < |b|, |a| = |b|, |a| > |b|, for a and b not NaN.
FCmpAbs(a, b) ==
    IF IsInf(a) THEN (IF IsInf(b) THEN 0 ELSE 1)
    ELSE IF IsInf(b) THEN -1
    ELSE IF IsZero(a) THEN (IF IsZero(b) THEN 0 ELSE -1)
    ELSE IF IsZero(b) THEN 1
    ELSE IF a.e < b.e THEN -1
    ELSE IF a.e > b.e THEN 1
    ELSE BCmp(a.m, b.m)

\* -1, 0, 1 as a < b, a = b, a > b, for a and b not NaN; -0 = +0.
FCmp(a, b) ==
    IF IsZero(a) /\ IsZero(b) THEN 0
    ELSE IF a.s = 0 /\ b.s = 1 THEN 1
    ELSE IF a.s = 1 /\ b.s = 0 THEN -1
    ELSE IF a.s = 0 THEN FCmpAbs(a, b)
    ELSE FCmpAbs(b, a)

\* The C comparisons: any comparison with a NaN is false.
FLt(a, b) == ~IsNaN(a) /\ ~IsNaN(b) /\ FCmp(a, b) < 0
FLe(a, b) == ~IsNaN(a) /\ ~IsNaN(b) /\ FCmp(a, b) <= 0
FEq(a, b) == ~IsNaN(a) /\ ~IsNaN(b) /\ FCmp(a, b) = 0

\* The sum of the finite, nonzero p and c, rounded once, where p is an exact
\* product: its mantissa has up to twice MantBits bits.  With exponents more
\* than 4 * MantBits apart the lesser operand, be it such a product, is below
\* the last place of the greater.
FFmaSum(p, c) ==
    IF p.e - c.e > 4 * MantBits \/ c.e - p.e > 4 * MantBits
    THEN FAddAt(p, c, Max(p.e, c.e) - AlignMax)
    ELSE FAddAt(p, c, Min(p.e, c.e))

\* fma(a, b, c): a * b + c rounded once.
FFma(a, b, c) ==
    IF IsNaN(a) \/ IsNaN(b) \/ IsNaN(c) THEN NaN
    ELSE IF (IsInf(a) /\ IsZero(b)) \/ (IsZero(a) /\ IsInf(b)) THEN NaN
    ELSE IF IsInf(a) \/ IsInf(b) THEN FAdd(Inf(SignXor(a, b)), c)
    ELSE IF IsInf(c) THEN c
    ELSE IF IsZero(a) \/ IsZero(b) THEN FAdd(Zero(SignXor(a, b)), c)
    ELSE IF IsZero(c) THEN FRound(SignXor(a, b), BMul(a.m, b.m), a.e + b.e)
    ELSE FFmaSum(Double(SignXor(a, b), BMul(a.m, b.m), a.e + b.e), c)


(***************************************************************************)
(* log() of <math.h> as the C library of the build, glibc, computes it.    *)
(* The result is near the natural logarithm but is not always the double   *)
(* nearest to it, so the computation is followed step by step, each step   *)
(* rounded as the processor rounds it.                                     *)
(*                                                                         *)
(* Near 1, ln x = r - r^2/2 + r^3 * poly1(r) with r = x - 1, where r is    *)
(* split in two parts so that r - r^2/2 is taken without loss.  Elsewhere  *)
(* x = 2^k * z with z in [0.6875, 1.375), z is in the i-th of the LogN     *)
(* intervals of that range, c is near the centre of the interval, and      *)
(*     ln x = k * ln 2 + ln c + ln(1 + r),   r = z/c - 1.                  *)
(*                                                                         *)
(* The library holds the same code compiled for several processors and     *)
(* picks one when the program starts.  On a processor with a fused         *)
(* multiply-add, a * b + c is rounded once and r is fma(z, invc, -1); on   *)
(* another the product is rounded before the sum and r is                  *)
(* (z - chi - clo) * invc.  The two give results that differ, rarely, by   *)
(* one unit in the last place.                                             *)
(***************************************************************************)
\* ln 2 in two parts: Ln2hi + Ln2lo, where k * Ln2hi is exact.
Ln2hi == Double(0, <<14336, 32244, 14603, 177>>, -53)
Ln2lo == Double(0, <<26416, 10126, 19806, 247>>, -97)

\* poly[]: A[0] .. A[4], the polynomial for ln(1 + r) - r away from 1.
LogPoly ==
  <<
    Double(1, <<1, 0, 0, 128>>, -53),
    Double(0, <<12379, 10914, 21845, 170>>, -54),
    Double(1, <<17808, 32726, 32767, 255>>, -55),
    Double(0, <<273, 18914, 26316, 204>>, -55),
    Double(1, <<18591, 18957, 21975, 170>>, -55)
  >>

\* poly1[]: B[0] .. B[10], the polynomial for ln(1 + r) - r near 1.
LogPoly1 ==
  <<
    Double(1, <<0, 0, 0, 128>>, -53),
    Double(0, <<21879, 10922, 21845, 170>>, -54),
    Double(1, <<32203, 32767, 32767, 255>>, -55),
    Double(0, <<23820, 13099, 26214, 204>>, -55),
    Double(1, <<17831, 10958, 21845, 170>>, -55),
    Double(0, <<24112, 18057, 9362, 146>>, -55),
    Double(1, <<15717, 18564, 32766, 255>>, -56),
    Double(0, <<22218, 20565, 17936, 227>>, -56),
    Double(1, <<26879, 1888, 26541, 204>>, -56),
    Double(0, <<20613, 28511, 1547, 188>>, -56),
    Double(1, <<17869, 27554, 18509, 170>>, -56)
  >>

\* tab[]: <<invc, logc>> for each of the LogN intervals: invc is near 1/c
\* and logc near ln c, for c near the centre of the interval.
LogTab ==
  <<
    <<Double(0, <<24223, 1985, 21443, 185>>, -52), Double(1, <<4096, 29645, 12797, 190>>, -54)>>,
    <<Double(0, <<26911, 21593, 19937, 184>>, -52), Double(1, <<0, 1050, 16315, 187>>, -54)>>,
    <<Double(0, <<13728, 4597, 18816, 183>>, -52), Double(1, <<24576, 9891, 20364, 184>>, -54)>>,
    <<Double(0, <<3197, 15911, 18072, 182>>, -52), Double(1, <<30720, 28752, 24940, 181>>, -54)>>,
    <<Double(0, <<13521, 6027, 17700, 181>>, -52), Double(1, <<30720, 8448, 30038, 178>>, -54)>>,
    <<Double(0, <<3258, 26206, 17692, 180>>, -52), Double(1, <<0, 27696, 2881, 176>>, -54)>>,
    <<Double(0, <<16931, 12356, 18044, 179>>, -52), Double(1, <<4096, 3361, 9002, 173>>, -54)>>,
    <<Double(0, <<7897, 13130, 18750, 178>>, -52), Double(1, <<20480, 11270, 15629, 170>>, -54)>>,
    <<Double(0, <<9412, 21790, 19802, 177>>, -52), Double(1, <<16384, 1750, 22751, 167>>, -54)>>,
    <<Double(0, <<23572, 22331, 21197, 176>>, -52), Double(1, <<20480, 31568, 30367, 164>>, -54)>>,
    <<Double(0, <<23628, 9612, 22929, 175>>, -52), Double(1, <<10240, 29459, 5704, 162>>, -54)>>,
    <<Double(0, <<11343, 27426, 24990, 174>>, -52), Double(1, <<14336, 29537, 14288, 159>>, -54)>>,
    <<Double(0, <<4318, 5815, 27379, 173>>, -52), Double(1, <<28672, 2334, 23353, 156>>, -54)>>,
    <<Double(0, <<6776, 26034, 30087, 172>>, -52), Double(1, <<8192, 12155, 120, 154>>, -54)>>,
    <<Double(0, <<22151, 9356, 344, 172>>, -52), Double(1, <<0, 24205, 10123, 151>>, -54)>>,
    <<Double(0, <<27603, 7630, 3679, 171>>, -52), Double(1, <<24576, 28769, 20588, 148>>, -54)>>,
    <<Double(0, <<32659, 17742, 7319, 170>>, -52), Double(1, <<2048, 6581, 31510, 145>>, -54)>>,
    <<Double(0, <<17795, 1036, 11261, 169>>, -52), Double(1, <<4096, 21071, 10116, 143>>, -54)>>,
    <<Double(0, <<15839, 14181, 15499, 168>>, -52), Double(1, <<30720, 22161, 21940, 140>>, -54)>>,
    <<Double(0, <<24279, 3689, 20029, 167>>, -52), Double(1, <<30720, 13683, 1438, 138>>, -54)>>,
    <<Double(0, <<10304, 8124, 24847, 166>>, -52), Double(1, <<6144, 10719, 14146, 135>>, -54)>>,
    <<Double(0, <<9160, 241, 29947, 165>>, -52), Double(1, <<4096, 12726, 27284, 132>>, -54)>>,
    <<Double(0, <<9610, 1984, 2559, 165>>, -52), Double(1, <<14336, 9415, 8089, 130>>, -54)>>,
    <<Double(0, <<1076, 18857, 8212, 164>>, -52), Double(1, <<28672, 2829, 11401, 255>>, -55)>>,
    <<Double(0, <<11531, 13874, 14136, 163>>, -52), Double(1, <<12288, 27183, 7465, 250>>, -55)>>,
    <<Double(0, <<6228, 9842, 20327, 162>>, -52), Double(1, <<12288, 31264, 4368, 245>>, -55)>>,
    <<Double(0, <<1114, 2409, 26781, 161>>, -52), Double(1, <<12288, 2515, 2101, 240>>, -55)>>,
    <<Double(0, <<30971, 555, 725, 161>>, -52), Double(1, <<28672, 21231, 648, 235>>, -55)>>,
    <<Double(0, <<29873, 13437, 7691, 160>>, -52), Double(1, <<4096, 2347, 4, 230>>, -55)>>,
    <<Double(0, <<32399, 15023, 14909, 159>>, -52), Double(1, <<4096, 11538, 165, 225>>, -55)>>,
    <<Double(0, <<19689, 16406, 22374, 158>>, -52), Double(1, <<4096, 6914, 1118, 220>>, -55)>>,
    <<Double(0, <<16683, 33, 30083, 157>>, -52), Double(1, <<20480, 6567, 2855, 215>>, -55)>>,
    <<Double(0, <<23224, 22251, 5264, 157>>, -52), Double(1, <<4096, 23589, 5376, 210>>, -55)>>,
    <<Double(0, <<20482, 6975, 13451, 156>>, -52), Double(1, <<28672, 20539, 8669, 205>>, -55)>>,
    <<Double(0, <<31260, 2824, 21871, 155>>, -52), Double(1, <<12288, 21136, 12725, 200>>, -55)>>,
    <<Double(0, <<14050, 4954, 30521, 154>>, -52), Double(1, <<16384, 19595, 17538, 195>>, -55)>>,
    <<Double(0, <<21568, 12443, 6630, 154>>, -52), Double(1, <<12288, 26664, 23102, 190>>, -55)>>,
    <<Double(0, <<19236, 7679, 15731, 153>>, -52), Double(1, <<28672, 30916, 29408, 185>>, -55)>>,
    <<Double(0, <<3401, 27458, 25053, 152>>, -52), Double(1, <<24576, 13934, 3690, 181>>, -55)>>,
    <<Double(0, <<14736, 28284, 1824, 152>>, -52), Double(1, <<8192, 10607, 11461, 176>>, -55)>>,
    <<Double(0, <<30785, 30507, 11578, 151>>, -52), Double(1, <<12288, 27720, 19957, 171>>, -55)>>,
    <<Double(0, <<10705, 1075, 21544, 150>>, -52), Double(1, <<12288, 8068, 29166, 166>>, -55)>>,
    <<Double(0, <<32042, 20847, 31718, 149>>, -52), Double(1, <<0, 9124, 6321, 162>>, -55)>>,
    <<Double(0, <<7083, 29720, 9329, 149>>, -52), Double(1, <<0, 30982, 16938, 157>>, -55)>>,
    <<Double(0, <<13616, 16425, 19913, 148>>, -52), Double(1, <<0, 22162, 28261, 152>>, -55)>>,
    <<Double(0, <<8693, 11951, 30697, 147>>, -52), Double(1, <<16384, 8520, 7506, 148>>, -55)>>,
    <<Double(0, <<15295, 13882, 8910, 147>>, -52), Double(1, <<8192, 28915, 20199, 143>>, -55)>>,
    <<Double(0, <<30141, 1823, 20086, 146>>, -52), Double(1, <<8192, 19033, 800, 139>>, -55)>>,
    <<Double(0, <<2107, 21906, 31454, 145>>, -52), Double(1, <<8192, 12270, 14845, 134>>, -55)>>,
    <<Double(0, <<16566, 22354, 10244, 145>>, -52), Double(1, <<8192, 5117, 29553, 129>>, -55)>>,
    <<Double(0, <<16690, 11672, 21990, 144>>, -52), Double(1, <<0, 30871, 24310, 250>>, -56)>>,
    <<Double(0, <<31899, 15269, 1152, 144>>, -52), Double(1, <<16384, 11392, 23586, 241>>, -56)>>,
    <<Double(0, <<18443, 4762, 13265, 143>>, -52), Double(1, <<16384, 32242, 24160, 232>>, -56)>>,
    <<Double(0, <<25961, 9502, 25557, 142>>, -52), Double(1, <<8192, 7601, 26013, 223>>, -56)>>,
    <<Double(0, <<32380, 8878, 5260, 142>>, -52), Double(1, <<24576, 16478, 29156, 214>>, -56)>>,
    <<Double(0, <<9961, 27030, 17905, 141>>, -52), Double(1, <<0, 20049, 783, 206>>, -56)>>,
    <<Double(0, <<6838, 6232, 30724, 140>>, -52), Double(1, <<16384, 26341, 6426, 197>>, -56)>>,
    <<Double(0, <<28861, 30572, 10945, 140>>, -52), Double(1, <<0, 26456, 13318, 188>>, -56)>>,
    <<Double(0, <<15542, 19423, 24104, 139>>, -52), Double(1, <<0, 2672, 21445, 179>>, -56)>>,
    <<Double(0, <<12762, 27288, 4660, 139>>, -52), Double(1, <<0, 23311, 30777, 170>>, -56)>>,
    <<Double(0, <<24541, 8270, 18150, 138>>, -52), Double(1, <<24576, 15683, 8563, 162>>, -56)>>,
    <<Double(0, <<21068, 18533, 31802, 137>>, -52), Double(1, <<8192, 6869, 20325, 153>>, -56)>>,
    <<Double(0, <<31194, 25633, 12845, 137>>, -52), Double(1, <<24576, 29066, 487, 145>>, -56)>>,
    <<Double(0, <<13617, 20953, 26816, 136>>, -52), Double(1, <<8192, 12484, 14618, 136>>, -56)>>,
    <<Double(0, <<13487, 13576, 8175, 136>>, -52), Double(1, <<0, 21924, 27057, 255>>, -57)>>,
    <<Double(0, <<27571, 7836, 22456, 135>>, -52), Double(1, <<16384, 5358, 27189, 238>>, -57)>>,
    <<Double(0, <<8142, 14933, 4121, 135>>, -52), Double(1, <<0, 18698, 29619, 221>>, -57)>>,
    <<Double(0, <<9505, 18009, 18705, 134>>, -52), Double(1, <<16384, 37, 1573, 205>>, -57)>>,
    <<Double(0, <<6170, 31173, 669, 134>>, -52), Double(1, <<16384, 26117, 8544, 188>>, -57)>>,
    <<Double(0, <<14033, 1932, 15550, 133>>, -52), Double(1, <<0, 20397, 17785, 171>>, -57)>>,
    <<Double(0, <<4921, 12608, 30574, 132>>, -52), Double(1, <<0, 4811, 29225, 154>>, -57)>>,
    <<Double(0, <<26591, 24229, 12974, 132>>, -52), Double(1, <<16384, 18474, 10125, 138>>, -57)>>,
    <<Double(0, <<10491, 24220, 28284, 131>>, -52), Double(1, <<0, 1495, 19202, 243>>, -58)>>,
    <<Double(0, <<3865, 6251, 10966, 131>>, -52), Double(1, <<0, 9381, 22469, 210>>, -58)>>,
    <<Double(0, <<31020, 19417, 26554, 130>>, -52), Double(1, <<0, 7939, 30091, 177>>, -58)>>,
    <<Double(0, <<11408, 7074, 9511, 130>>, -52), Double(1, <<0, 6484, 9198, 145>>, -58)>>,
    <<Double(0, <<11689, 3553, 25371, 129>>, -52), Double(1, <<0, 16882, 17900, 225>>, -59)>>,
    <<Double(0, <<12969, 9970, 8596, 129>>, -52), Double(1, <<0, 15188, 25813, 160>>, -59)>>,
    <<Double(0, <<29512, 20436, 24720, 128>>, -52), Double(1, <<0, 1496, 18447, 192>>, -60)>>,
    <<Double(0, <<12693, 3113, 8208, 128>>, -52), Double(1, <<0, 29256, 4133, 128>>, -61)>>,
    <<Double(0, <<31258, 28237, 127, 255>>, -53), Double(0, <<0, 2336, 16334, 255>>, -61)>>,
    <<Double(0, <<27252, 1219, 1139, 253>>, -53), Double(0, <<0, 27258, 28932, 190>>, -59)>>,
    <<Double(0, <<6446, 24835, 3138, 251>>, -53), Double(0, <<0, 2437, 14991, 158>>, -58)>>,
    <<Double(0, <<11725, 31197, 6104, 249>>, -53), Double(0, <<0, 10514, 32516, 220>>, -58)>>,
    <<Double(0, <<5095, 1826, 10016, 247>>, -53), Double(0, <<0, 7202, 17251, 141>>, -57)>>,
    <<Double(0, <<12715, 29079, 14849, 245>>, -53), Double(0, <<16384, 8195, 10607, 172>>, -57)>>,
    <<Double(0, <<3227, 17722, 20586, 243>>, -53), Double(0, <<0, 433, 29197, 202>>, -57)>>,
    <<Double(0, <<6581, 1557, 27206, 241>>, -53), Double(0, <<0, 24239, 7595, 233>>, -57)>>,
    <<Double(0, <<6742, 4801, 1920, 240>>, -53), Double(0, <<16384, 19249, 22115, 131>>, -56)>>,
    <<Double(0, <<15256, 19183, 10247, 238>>, -53), Double(0, <<8192, 17946, 20439, 146>>, -56)>>,
    <<Double(0, <<4355, 5881, 19400, 236>>, -53), Double(0, <<0, 5744, 15222, 161>>, -56)>>,
    <<Double(0, <<23758, 19958, 29361, 234>>, -53), Double(0, <<16384, 3759, 6502, 176>>, -56)>>,
    <<Double(0, <<24221, 21693, 7346, 233>>, -53), Double(0, <<0, 27348, 27096, 190>>, -56)>>,
    <<Double(0, <<11469, 31958, 18872, 231>>, -53), Double(0, <<24576, 7224, 11533, 205>>, -56)>>,
    <<Double(0, <<30978, 17742, 31158, 229>>, -53), Double(0, <<24576, 30234, 25374, 219>>, -56)>>,
    <<Double(0, <<2157, 23150, 11417, 228>>, -53), Double(0, <<8192, 26062, 3148, 234>>, -56)>>,
    <<Double(0, <<22532, 31418, 25170, 226>>, -53), Double(0, <<24576, 25532, 10437, 248>>, -56)>>,
    <<Double(0, <<8076, 26487, 6868, 225>>, -53), Double(0, <<16384, 22306, 7252, 131>>, -55)>>,
    <<Double(0, <<26431, 24025, 22031, 223>>, -53), Double(0, <<12288, 1317, 7702, 138>>, -55)>>,
    <<Double(0, <<5825, 27575, 5109, 222>>, -53), Double(0, <<12288, 7060, 6587, 145>>, -55)>>,
    <<Double(0, <<18984, 6412, 21624, 220>>, -53), Double(0, <<20480, 19850, 3934, 152>>, -55)>>,
    <<Double(0, <<15916, 3038, 6027, 219>>, -53), Double(0, <<4096, 30822, 32524, 158>>, -55)>>,
    <<Double(0, <<2187, 20371, 23841, 217>>, -53), Double(0, <<0, 22261, 26841, 165>>, -55)>>,
    <<Double(0, <<12362, 16954, 9516, 216>>, -53), Double(0, <<28672, 20899, 19684, 172>>, -55)>>,
    <<Double(0, <<28542, 3045, 28578, 214>>, -53), Double(0, <<28672, 18481, 11060, 179>>, -55)>>,
    <<Double(0, <<15778, 25280, 15476, 213>>, -53), Double(0, <<4096, 22733, 995, 186>>, -55)>>,
    <<Double(0, <<22695, 32678, 2968, 212>>, -53), Double(0, <<28672, 27189, 22275, 192>>, -55)>>,
    <<Double(0, <<29579, 24082, 23811, 210>>, -53), Double(0, <<0, 10733, 9381, 199>>, -55)>>,
    <<Double(0, <<19239, 8534, 12458, 209>>, -53), Double(0, <<16384, 1520, 27864, 205>>, -55)>>,
    <<Double(0, <<29393, 10023, 1664, 208>>, -53), Double(0, <<0, 14424, 12212, 212>>, -55)>>,
    <<Double(0, <<15387, 18870, 24188, 206>>, -53), Double(0, <<20480, 14339, 27973, 218>>, -55)>>,
    <<Double(0, <<12688, 2959, 14484, 205>>, -53), Double(0, <<16384, 6521, 9631, 225>>, -55)>>,
    <<Double(0, <<20015, 25903, 5307, 204>>, -53), Double(0, <<24576, 10896, 22743, 231>>, -55)>>,
    <<Double(0, <<19317, 23880, 29419, 202>>, -53), Double(0, <<16384, 26765, 1780, 238>>, -55)>>,
    <<Double(0, <<18488, 15310, 21274, 201>>, -53), Double(0, <<24576, 29087, 12294, 244>>, -55)>>,
    <<Double(0, <<21222, 24270, 13628, 200>>, -53), Double(0, <<4096, 47, 21543, 250>>, -55)>>,
    <<Double(0, <<22429, 7679, 6474, 199>>, -53), Double(0, <<14336, 9279, 14768, 128>>, -54)>>,
    <<Double(0, <<124, 16280, 32570, 197>>, -53), Double(0, <<20480, 7463, 18144, 131>>, -54)>>,
    <<Double(0, <<17166, 13693, 26371, 196>>, -53), Double(0, <<28672, 15628, 20910, 134>>, -54)>>,
    <<Double(0, <<6139, 21574, 20638, 195>>, -53), Double(0, <<20480, 26263, 23068, 137>>, -54)>>,
    <<Double(0, <<6664, 22887, 15362, 194>>, -53), Double(0, <<18432, 20038, 24629, 140>>, -54)>>,
    <<Double(0, <<15957, 20682, 10535, 193>>, -53), Double(0, <<0, 16793, 25599, 143>>, -54)>>,
    <<Double(0, <<608, 11240, 6150, 192>>, -53), Double(0, <<26624, 11974, 25983, 146>>, -54)>>,
    <<Double(0, <<9001, 18369, 2197, 191>>, -53), Double(0, <<10240, 4649, 25792, 149>>, -54)>>,
    <<Double(0, <<13741, 28601, 31437, 189>>, -53), Double(0, <<24576, 8326, 25032, 152>>, -54)>>,
    <<Double(0, <<9666, 20270, 28329, 188>>, -53), Double(0, <<6144, 23512, 23705, 155>>, -54)>>,
    <<Double(0, <<1623, 25646, 25631, 187>>, -53), Double(0, <<12288, 30558, 21823, 158>>, -54)>>,
    <<Double(0, <<4876, 14252, 23339, 186>>, -53), Double(0, <<24576, 18015, 19387, 161>>, -54)>>
  >>

\* tab2[]: <<chi, clo>>, the reciprocal of invc in two parts, for the
\* processors without a fused multiply-add.
LogTab2 ==
  <<
    <<Double(0, <<13931, 671, 16384, 176>>, -53), Double(0, <<23356, 8836, 2482, 240>>, -108)>>,
    <<Double(0, <<13461, 1691, 16384, 177>>, -53), Double(0, <<23873, 4096, 32681, 237>>, -107)>>,
    <<Double(0, <<21624, 6953, 16384, 178>>, -53), Double(0, <<9655, 3501, 32414, 243>>, -107)>>,
    <<Double(0, <<28589, 3740, 16384, 179>>, -53), Double(0, <<9548, 22184, 29609, 143>>, -109)>>,
    <<Double(0, <<4014, 32190, 16383, 180>>, -53), Double(1, <<3837, 6322, 30877, 227>>, -108)>>,
    <<Double(0, <<17852, 3783, 16384, 181>>, -53), Double(1, <<23041, 4537, 1441, 214>>, -107)>>,
    <<Double(0, <<16886, 15545, 16384, 182>>, -53), Double(0, <<4881, 14995, 31858, 153>>, -107)>>,
    <<Double(0, <<30270, 22027, 16383, 183>>, -53), Double(1, <<11603, 13764, 16, 244>>, -108)>>,
    <<Double(0, <<6016, 7437, 16384, 184>>, -53), Double(0, <<31058, 25106, 32153, 223>>, -108)>>,
    <<Double(0, <<26898, 30927, 16383, 185>>, -53), Double(0, <<1828, 19835, 904, 224>>, -107)>>,
    <<Double(0, <<4458, 16130, 16383, 186>>, -53), Double(1, <<466, 24034, 2629, 240>>, -109)>>,
    <<Double(0, <<7312, 7887, 16384, 187>>, -53), Double(1, <<7284, 6825, 29127, 191>>, -109)>>,
    <<Double(0, <<18485, 29949, 16383, 188>>, -53), Double(0, <<1155, 15850, 31494, 141>>, -107)>>,
    <<Double(0, <<17126, 31809, 16383, 189>>, -53), Double(1, <<25701, 21400, 30812, 131>>, -108)>>,
    <<Double(0, <<18688, 23167, 16383, 190>>, -53), Double(1, <<2844, 4343, 456, 132>>, -107)>>,
    <<Double(0, <<6774, 21068, 16383, 191>>, -53), Double(0, <<31150, 23355, 161, 238>>, -107)>>,
    <<Double(0, <<9192, 2361, 16384, 192>>, -53), Double(0, <<19507, 9162, 32585, 203>>, -107)>>,
    <<Double(0, <<11407, 12070, 16384, 193>>, -53), Double(1, <<29569, 27745, 31654, 215>>, -107)>>,
    <<Double(0, <<29596, 3174, 16384, 194>>, -53), Double(0, <<13756, 22218, 32509, 205>>, -107)>>,
    <<Double(0, <<2502, 16517, 16384, 195>>, -53), Double(1, <<31605, 26146, 32151, 221>>, -107)>>,
    <<Double(0, <<30980, 22506, 16383, 196>>, -53), Double(1, <<19287, 17531, 442, 200>>, -107)>>,
    <<Double(0, <<1247, 17784, 16384, 197>>, -53), Double(1, <<19210, 29120, 892, 232>>, -108)>>,
    <<Double(0, <<7050, 18968, 16383, 198>>, -53), Double(1, <<7941, 3583, 453, 192>>, -107)>>,
    <<Double(0, <<3651, 31011, 16383, 199>>, -53), Double(0, <<28728, 8436, 1519, 156>>, -107)>>,
    <<Double(0, <<24519, 15860, 16384, 200>>, -53), Double(0, <<13315, 28095, 31301, 201>>, -107)>>,
    <<Double(0, <<31673, 9868, 16384, 201>>, -53), Double(0, <<630, 5936, 313, 252>>, -108)>>,
    <<Double(0, <<1903, 19932, 16383, 202>>, -53), Double(1, <<25134, 13310, 31683, 251>>, -107)>>,
    <<Double(0, <<4817, 15480, 16383, 203>>, -53), Double(1, <<14522, 11340, 2730, 132>>, -108)>>,
    <<Double(0, <<2573, 26763, 16383, 204>>, -53), Double(1, <<10479, 8905, 110, 188>>, -107)>>,
    <<Double(0, <<11838, 15152, 16383, 205>>, -53), Double(1, <<4919, 5301, 898, 186>>, -107)>>,
    <<Double(0, <<31590, 23187, 16383, 206>>, -53), Double(0, <<24576, 823, 14371, 254>>, -112)>>,
    <<Double(0, <<7249, 16867, 16384, 207>>, -53), Double(1, <<23306, 20240, 32424, 209>>, -107)>>,
    <<Double(0, <<12294, 8843, 16384, 208>>, -53), Double(0, <<23126, 12977, 32034, 167>>, -108)>>,
    <<Double(0, <<30458, 3959, 16384, 209>>, -53), Double(0, <<27928, 5206, 31406, 229>>, -107)>>,
    <<Double(0, <<7545, 8494, 16384, 210>>, -53), Double(0, <<31024, 15088, 31531, 199>>, -107)>>,
    <<Double(0, <<11848, 15338, 16384, 211>>, -53), Double(1, <<11227, 31665, 1496, 250>>, -107)>>,
    <<Double(0, <<13138, 14514, 16384, 212>>, -53), Double(1, <<30226, 2436, 31754, 245>>, -107)>>,
    <<Double(0, <<15947, 21662, 16384, 213>>, -53), Double(1, <<16223, 31230, 29712, 207>>, -109)>>,
    <<Double(0, <<7889, 12124, 16383, 214>>, -53), Double(1, <<28852, 9504, 31644, 145>>, -107)>>,
    <<Double(0, <<1144, 23714, 16383, 215>>, -53), Double(0, <<24227, 16413, 6395, 208>>, -109)>>,
    <<Double(0, <<3419, 14026, 16383, 216>>, -53), Double(0, <<2745, 28734, 6944, 208>>, -110)>>,
    <<Double(0, <<19031, 32085, 16383, 217>>, -53), Double(1, <<15389, 26694, 1145, 200>>, -108)>>,
    <<Double(0, <<15068, 13099, 16383, 218>>, -53), Double(1, <<10911, 20748, 31809, 207>>, -108)>>,
    <<Double(0, <<26012, 18748, 16384, 219>>, -53), Double(0, <<20286, 8460, 32023, 215>>, -107)>>,
    <<Double(0, <<5696, 29454, 16383, 220>>, -53), Double(0, <<17401, 11653, 31198, 231>>, -108)>>,
    <<Double(0, <<19279, 9225, 16383, 221>>, -53), Double(1, <<11204, 24036, 31903, 159>>, -109)>>,
    <<Double(0, <<23621, 9346, 16383, 222>>, -53), Double(1, <<27169, 23671, 32479, 231>>, -109)>>,
    <<Double(0, <<2527, 28870, 16383, 223>>, -53), Double(1, <<2908, 11868, 1038, 138>>, -107)>>,
    <<Double(0, <<30291, 17258, 16383, 224>>, -53), Double(0, <<27161, 10606, 1426, 222>>, -107)>>,
    <<Double(0, <<22499, 25588, 16383, 225>>, -53), Double(1, <<18157, 6753, 31678, 167>>, -109)>>,
    <<Double(0, <<25636, 14719, 16383, 226>>, -53), Double(1, <<18293, 31192, 32162, 161>>, -107)>>,
    <<Double(0, <<14839, 23209, 16383, 227>>, -53), Double(0, <<24812, 24743, 31375, 163>>, -107)>>,
    <<Double(0, <<4053, 22323, 16383, 228>>, -53), Double(0, <<4849, 7155, 3098, 156>>, -108)>>,
    <<Double(0, <<8602, 16970, 16384, 229>>, -53), Double(1, <<3588, 18480, 30265, 199>>, -109)>>,
    <<Double(0, <<18076, 15144, 16383, 230>>, -53), Double(0, <<27250, 14735, 31480, 243>>, -107)>>,
    <<Double(0, <<17526, 22011, 16383, 231>>, -53), Double(0, <<2302, 23359, 30950, 245>>, -107)>>,
    <<Double(0, <<30763, 11573, 16384, 232>>, -53), Double(0, <<23153, 20850, 30278, 171>>, -108)>>,
    <<Double(0, <<30493, 6687, 16384, 233>>, -53), Double(0, <<18394, 21217, 1601, 206>>, -107)>>,
    <<Double(0, <<4036, 21746, 16383, 234>>, -53), Double(1, <<32268, 2737, 14559, 192>>, -110)>>,
    <<Double(0, <<2021, 23993, 16384, 235>>, -53), Double(1, <<3908, 7042, 857, 252>>, -108)>>,
    <<Double(0, <<682, 17337, 16384, 236>>, -53), Double(1, <<23644, 10746, 29246, 163>>, -108)>>,
    <<Double(0, <<643, 12502, 16383, 237>>, -53), Double(0, <<24958, 2626, 31863, 227>>, -107)>>,
    <<Double(0, <<18233, 21208, 16384, 238>>, -53), Double(0, <<12627, 26111, 1658, 192>>, -107)>>,
    <<Double(0, <<4341, 19081, 16383, 239>>, -53), Double(0, <<19593, 3237, 843, 240>>, -109)>>,
    <<Double(0, <<30356, 6999, 16383, 240>>, -53), Double(1, <<27090, 16474, 3328, 252>>, -108)>>,
    <<Double(0, <<18653, 13989, 16383, 241>>, -53), Double(0, <<2148, 5174, 775, 216>>, -108)>>,
    <<Double(0, <<5871, 25732, 16383, 242>>, -53), Double(0, <<11089, 24873, 32418, 151>>, -108)>>,
    <<Double(0, <<24081, 20756, 16383, 243>>, -53), Double(1, <<15961, 25567, 22990, 191>>, -110)>>,
    <<Double(0, <<32525, 9021, 16384, 244>>, -53), Double(1, <<18433, 15383, 565, 164>>, -107)>>,
    <<Double(0, <<5956, 16202, 16383, 245>>, -53), Double(0, <<8373, 10886, 27, 192>>, -108)>>,
    <<Double(0, <<32673, 13348, 16384, 246>>, -53), Double(1, <<23698, 16556, 3041, 128>>, -110)>>,
    <<Double(0, <<15556, 3957, 16384, 247>>, -53), Double(1, <<26129, 14955, 273, 170>>, -107)>>,
    <<Double(0, <<3330, 27381, 16383, 248>>, -53), Double(1, <<4357, 29663, 27844, 255>>, -111)>>,
    <<Double(0, <<2759, 15819, 16384, 249>>, -53), Double(0, <<4437, 25830, 1715, 212>>, -107)>>,
    <<Double(0, <<13460, 27396, 16383, 250>>, -53), Double(0, <<18243, 10671, 32007, 209>>, -107)>>,
    <<Double(0, <<19563, 31058, 16383, 251>>, -53), Double(1, <<30837, 14640, 3024, 144>>, -109)>>,
    <<Double(0, <<17473, 17395, 16383, 252>>, -53), Double(0, <<26443, 26863, 30535, 187>>, -108)>>,
    <<Double(0, <<25470, 9665, 16383, 253>>, -53), Double(1, <<9009, 13561, 1126, 248>>, -109)>>,
    <<Double(0, <<25758, 14575, 16384, 254>>, -53), Double(0, <<11441, 6045, 1977, 140>>, -108)>>,
    <<Double(0, <<17201, 28609, 16383, 255>>, -53), Double(1, <<1882, 737, 5340, 240>>, -109)>>,
    <<Double(0, <<24686, 26826, 16383, 128>>, -52), Double(1, <<2778, 4664, 31413, 211>>, -107)>>,
    <<Double(0, <<31320, 26380, 16383, 129>>, -52), Double(1, <<13024, 2041, 32167, 187>>, -106)>>,
    <<Double(0, <<3351, 31736, 16383, 130>>, -52), Double(0, <<5211, 27031, 32760, 189>>, -106)>>,
    <<Double(0, <<19842, 1946, 16384, 131>>, -52), Double(0, <<22219, 456, 527, 144>>, -107)>>,
    <<Double(0, <<19432, 29669, 16383, 132>>, -52), Double(1, <<29978, 31854, 32638, 239>>, -109)>>,
    <<Double(0, <<23141, 537, 16384, 133>>, -52), Double(1, <<9963, 24012, 32254, 137>>, -106)>>,
    <<Double(0, <<21304, 841, 16384, 134>>, -52), Double(0, <<8183, 29329, 30697, 131>>, -107)>>,
    <<Double(0, <<32253, 30133, 16383, 135>>, -52), Double(1, <<27584, 25004, 4117, 184>>, -108)>>,
    <<Double(0, <<32150, 6005, 16384, 136>>, -52), Double(0, <<2914, 2266, 850, 244>>, -107)>>,
    <<Double(0, <<29789, 30155, 16383, 137>>, -52), Double(0, <<14063, 18938, 32745, 237>>, -106)>>,
    <<Double(0, <<6873, 7083, 16384, 138>>, -52), Double(0, <<20654, 24612, 477, 208>>, -106)>>,
    <<Double(0, <<21914, 7746, 16384, 139>>, -52), Double(0, <<24302, 17863, 30695, 239>>, -107)>>,
    <<Double(0, <<21542, 30798, 16383, 140>>, -52), Double(0, <<29299, 14454, 195, 136>>, -106)>>,
    <<Double(0, <<15449, 9338, 16384, 141>>, -52), Double(0, <<392, 6, 32230, 203>>, -106)>>,
    <<Double(0, <<7863, 28755, 16383, 142>>, -52), Double(1, <<3175, 22335, 25802, 175>>, -109)>>,
    <<Double(0, <<21504, 26901, 16383, 143>>, -52), Double(0, <<23531, 15182, 32510, 155>>, -106)>>,
    <<Double(0, <<1700, 6423, 16384, 144>>, -52), Double(0, <<23330, 9210, 430, 252>>, -106)>>,
    <<Double(0, <<17155, 1802, 16384, 145>>, -52), Double(0, <<16179, 22335, 32523, 159>>, -106)>>,
    <<Double(0, <<30340, 32633, 16383, 146>>, -52), Double(0, <<11890, 31836, 1949, 176>>, -108)>>,
    <<Double(0, <<8665, 27218, 16383, 147>>, -52), Double(0, <<3169, 27902, 29421, 255>>, -108)>>,
    <<Double(0, <<14908, 10534, 16384, 148>>, -52), Double(1, <<16683, 30724, 2856, 144>>, -108)>>,
    <<Double(0, <<25363, 10410, 16384, 149>>, -52), Double(1, <<7938, 26596, 520, 148>>, -106)>>,
    <<Double(0, <<21051, 22524, 16383, 150>>, -52), Double(1, <<23794, 28831, 32248, 199>>, -107)>>,
    <<Double(0, <<11670, 6001, 16384, 151>>, -52), Double(1, <<16837, 8288, 32069, 175>>, -107)>>,
    <<Double(0, <<25263, 30453, 16383, 152>>, -52), Double(1, <<10397, 4284, 454, 136>>, -107)>>,
    <<Double(0, <<24447, 32088, 16383, 153>>, -52), Double(1, <<14101, 32623, 32116, 143>>, -106)>>,
    <<Double(0, <<26454, 6476, 16384, 154>>, -52), Double(0, <<701, 17687, 32264, 171>>, -106)>>,
    <<Double(0, <<30497, 9207, 16384, 155>>, -52), Double(0, <<21964, 2075, 747, 128>>, -107)>>,
    <<Double(0, <<12217, 29362, 16383, 156>>, -52), Double(1, <<10065, 23397, 32372, 161>>, -106)>>,
    <<Double(0, <<21058, 2491, 16384, 157>>, -52), Double(0, <<14561, 24812, 32173, 171>>, -107)>>,
    <<Double(0, <<18775, 27493, 16383, 158>>, -52), Double(0, <<4657, 8574, 2280, 208>>, -108)>>,
    <<Double(0, <<13336, 21857, 16383, 159>>, -52), Double(0, <<21168, 19810, 32181, 195>>, -106)>>,
    <<Double(0, <<12276, 10853, 16384, 160>>, -52), Double(0, <<1316, 15923, 24797, 191>>, -109)>>,
    <<Double(0, <<2857, 11919, 16384, 161>>, -52), Double(0, <<20803, 26040, 1945, 152>>, -107)>>,
    <<Double(0, <<13411, 20267, 16383, 162>>, -52), Double(0, <<2394, 29029, 32166, 207>>, -107)>>,
    <<Double(0, <<30176, 20488, 16383, 163>>, -52), Double(1, <<29268, 14213, 710, 174>>, -106)>>,
    <<Double(0, <<16871, 24287, 16383, 164>>, -52), Double(0, <<10866, 25716, 39, 218>>, -106)>>,
    <<Double(0, <<9988, 19325, 16383, 165>>, -52), Double(1, <<32069, 32282, 32478, 167>>, -106)>>,
    <<Double(0, <<10206, 11808, 16384, 166>>, -52), Double(1, <<27197, 25528, 401, 206>>, -106)>>,
    <<Double(0, <<16098, 8160, 16384, 167>>, -52), Double(0, <<21276, 5898, 32292, 187>>, -106)>>,
    <<Double(0, <<19409, 9656, 16384, 168>>, -52), Double(0, <<9270, 25293, 4501, 128>>, -109)>>,
    <<Double(0, <<10106, 11274, 16384, 169>>, -52), Double(1, <<12809, 7238, 32571, 181>>, -106)>>,
    <<Double(0, <<28748, 22966, 16383, 170>>, -52), Double(1, <<8663, 2571, 2504, 200>>, -107)>>,
    <<Double(0, <<21673, 24254, 16383, 171>>, -52), Double(0, <<25618, 7570, 32664, 221>>, -106)>>,
    <<Double(0, <<4114, 12236, 16384, 172>>, -52), Double(0, <<28560, 863, 31510, 195>>, -107)>>,
    <<Double(0, <<16018, 1938, 16384, 173>>, -52), Double(1, <<3264, 5502, 1056, 250>>, -106)>>,
    <<Double(0, <<6588, 14994, 16384, 174>>, -52), Double(1, <<18217, 30282, 1195, 196>>, -106)>>,
    <<Double(0, <<31369, 20336, 16383, 175>>, -52), Double(1, <<26884, 474, 31454, 163>>, -106)>>
  >>

\* N, the number of intervals, and the biased exponent and the leading
\* seven fraction bits of OFF = 0x3fe6000000000000, the double 0.6875.
LogN == 128
LogOffExponent == 1022
LogOffTop == 48
\* The bias of the exponent field, for a mantissa taken as an integer.
ExponentBias == 1075

One == Double(0, BShl(<<1>>, 52), -52)
\* 0x1p27
TwoTo27 == Double(0, BShl(<<1>>, 52), -25)

\* a * b + c as the processor takes it: rounded once when the multiply-add
\* is fused, else the product rounded and then the sum.
MulAdd(fused, a, b, c) == IF fused THEN FFma(a, b, c) ELSE FAdd(FMul(a, b), c)

\* (double) k for an int k
FFromInt(n) == IF n < 0 THEN FNeg(FFromNat(BFromInt(-n))) ELSE FFromNat(BFromInt(n))

\* B[j] + r*B[j+1] + r2*B[j+2]
LogNearTerms(fused, r, r2, j) ==
    MulAdd(fused, r2, LogPoly1[j + 3], MulAdd(fused, r, LogPoly1[j + 2], LogPoly1[j + 1]))

\* B[1] + r*B[2] + r2*B[3] + r3*(B[4] + r*B[5] + r2*B[6]
\*     + r3*(B[7] + r*B[8] + r2*B[9] + r3*B[10]))
LogNearPoly(fused, r, r2, r3) ==
    MulAdd(fused,
           MulAdd(fused,
                  MulAdd(fused, r3, LogPoly1[11], LogNearTerms(fused, r, r2, 7)),
                  r3, LogNearTerms(fused, r, r2, 4)),
           r3, LogNearTerms(fused, r, r2, 1))

\* hi = r + w; lo = r - hi + w; lo += B[0] * rlo * (rhi + r), for
\* w = rhi * rhi * B[0] and rlo = r - rhi, where sq is rhi * rhi; then
\* y = r3 * q; y += lo; y += hi
LogNearParts(fused, r, r3, q, rhi, sq, hi) ==
    Strict(hi, FAdd(MulAdd(fused, q, r3,
                           MulAdd(fused, FMul(LogPoly1[1], FSub(r, rhi)), FAdd(rhi, r),
                                  MulAdd(fused, sq, LogPoly1[1], FSub(r, hi)))),
                    hi))

LogNearSquare(fused, r, r3, q, rhi, sq) ==
    Strict(sq, LogNearParts(fused, r, r3, q, rhi, sq, MulAdd(fused, sq, LogPoly1[1], r)))

LogNearSplit(fused, r, r3, q, rhi) ==
    Strict(<<q, rhi>>, LogNearSquare(fused, r, r3, q, rhi, FMul(rhi, rhi)))

\* w = r * 0x1p27; rhi = r + w - w: the leading half of r.
LogNearCube(fused, r, r2, r3) ==
    Strict(r3, LogNearSplit(fused, r, r3, LogNearPoly(fused, r, r2, r3),
                            MulAdd(fused, FNeg(TwoTo27), r, MulAdd(fused, r, TwoTo27, r))))

LogNearSquared(fused, r, r2) == Strict(r2, LogNearCube(fused, r, r2, FMul(r, r2)))

\* log(x) for x near 1 and not 1, where r = x - 1.
LogNear(fused, r) == Strict(r, LogNearSquared(fused, r, FMul(r, r)))

\* y = lo + r2*A[0] + r*r2*(A[1] + r*A[2] + r2*(A[3] + r*A[4])) + hi
LogSum(fused, r, r2, hi, lo) ==
    Strict(<<r2, lo>>,
           FAdd(MulAdd(fused, FMul(r, r2),
                       MulAdd(fused, MulAdd(fused, r, LogPoly[5], LogPoly[4]), r2,
                              MulAdd(fused, r, LogPoly[3], LogPoly[2])),
                       MulAdd(fused, r2, LogPoly[1], lo)),
                hi))

\* lo = w - hi + r + kd*Ln2lo
LogParts(fused, kd, r, w, hi) ==
    Strict(hi, LogSum(fused, r, FMul(r, r), hi,
                      MulAdd(fused, kd, Ln2lo, FAdd(FSub(w, hi), r))))

\* hi = w + r
LogHi(fused, kd, r, w) == Strict(w, LogParts(fused, kd, r, w, FAdd(w, r)))

\* log(2^k * z) for z in the j-th interval, kd = (double) k and r of z;
\* w = kd*Ln2hi + logc
LogScaled(fused, j, kd, r) ==
    Strict(<<kd, r>>, LogHi(fused, kd, r, MulAdd(fused, kd, Ln2hi, LogTab[j + 1][2])))

\* r = z/c - 1, about
LogRatio(fused, j, z) ==
    IF fused THEN FFma(z, LogTab[j + 1][1], FNeg(One))
    ELSE FMul(FSub(FSub(z, LogTab2[j + 1][1]), LogTab2[j + 1][2]), LogTab[j + 1][1])

\* tmp = ix - OFF; i = (tmp >> 45) % N; k = (int64_t) tmp >> 52;
\* iz = ix - (tmp & 0xfff << 52), for the double of biased exponent eb and
\* 53-bit mantissa m, whose leading seven fraction bits are top.
LogInterval(fused, eb, m, top) ==
    IF top < LogOffTop
    THEN LogScaled(fused, (top + LogN - LogOffTop) % LogN,
                   FFromInt(eb - LogOffExponent - 1),
                   LogRatio(fused, (top + LogN - LogOffTop) % LogN,
                            Double(0, m, LogOffExponent + 1 - ExponentBias)))
    ELSE LogScaled(fused, (top - LogOffTop) % LogN,
                   FFromInt(eb - LogOffExponent),
                   LogRatio(fused, (top - LogOffTop) % LogN,
                            Double(0, m, LogOffExponent - ExponentBias)))

\* log(m * 2^e) away from 1, for m of MantBits bits: a subnormal x comes
\* here scaled to such an m.
LogNormal(fused, m, e) ==
    LogInterval(fused, e + ExponentBias, m, BToInt(BShr(m, MantBits - 8)) - LogN)

\* log(x), on a processor with a fused multiply-add or without.  The
\* computation near 1 is that of 1.0 - 0x1p-4 <= x < 1.0 + 0x1.09p-4.
FLog(fused, x) ==
    IF IsNaN(x) THEN NaN
    ELSE IF IsZero(x) THEN Inf(1)
    ELSE IF x.s = 1 THEN NaN
    ELSE IF IsInf(x) THEN x
    ELSE IF FEq(x, One) THEN Zero(0)
    ELSE IF FLe(Double(0, BShl(<<15>>, 49), -53), x)
            /\ FLt(x, Double(0, BShl(BFromInt(4361), 40), -52))
    THEN LogNear(fused, FSub(x, One))
    ELSE LogNormal(fused, BShl(x.m, MantBits - BBitLen(x.m)), x.e - (MantBits - BBitLen(x.m)))

(***************************************************************************)
(* sscanf() as the C library of the build, glibc, reads an option's        *)
(* argument, which is a sequence of characters.  A conversion skips white  *)
(* space and takes a sign; "%lf" then reads "nan", "inf" or "infinity" in  *)
(* either case, a hexadecimal number after "0x", or a decimal number, each *)
(* with its exponent, and stops at the first character that cannot go on   *)
(* the number.  What follows the number is ignored.                        *)
(***************************************************************************)
\* The characters of isspace(); the last is the vertical tab, for which a
\* string has no escape.
SpaceChars == {" ", "\t", "\n", "\f", "\r", ""}
DigitChars == {"0", "1", "2", "3", "4", "5", "6", "7", "8", "9"}
HexChars == DigitChars \cup {"a", "b", "c", "d", "e", "f", "A", "B", "C", "D", "E", "F"}

\* The value of a digit, decimal or hexadecimal.
HexValue(c) ==
    CASE c = "0" -> 0 [] c = "1" -> 1 [] c = "2" -> 2 [] c = "3" -> 3
      [] c = "4" -> 4 [] c = "5" -> 5 [] c = "6" -> 6 [] c = "7" -> 7
      [] c = "8" -> 8 [] c = "9" -> 9
      [] c \in {"a", "A"} -> 10 [] c \in {"b", "B"} -> 11 [] c \in {"c", "C"} -> 12
      [] c \in {"d", "D"} -> 13 [] c \in {"e", "E"} -> 14 [] c \in {"f", "F"} -> 15

\* The character at position i, or "" past the end of the string.
CharAt(str, i) == IF i >= 1 /\ i <= Len(str) THEN str[i] ELSE ""

\* The number of characters of the set chars from position i on.
RECURSIVE CharRun(_, _, _)
CharRun(str, i, chars) ==
    IF i <= Len(str) /\ str[i] \in chars THEN 1 + CharRun(str, i + 1, chars) ELSE 0

\* The number of white-space characters, and of digits, from position i on.
SpaceRun(str, i) == CharRun(str, i, SpaceChars)
DigitRun(str, i) == CharRun(str, i, DigitChars)

\* The number that acc and, after it, the n digits from position i on spell
\* in the given radix.
RECURSIVE NumberFrom(_, _, _, _, _)
NumberFrom(str, i, n, radix, acc) ==
    IF n = 0 THEN acc
    ELSE Strict(acc, NumberFrom(str, i + 1, n - 1, radix,
                                BAdd(BMulSmall(acc, radix), BFromInt(HexValue(str[i])))))

\* The number the n digits from position i on spell.
DigitsValue(str, i, n) == NumberFrom(str, i, n, 10, <<>>)

\* Where the number starts, after white space and a sign, and the sign; eof
\* when the string ends before any character of a number.
SignAt(str, i) ==
    [neg |-> CharAt(str, i) = "-",
     at |-> IF CharAt(str, i) \in {"+", "-"} THEN i + 1 ELSE i,
     eof |-> i > Len(str)]

ScanSign(str) == SignAt(str, 1 + SpaceRun(str, 1))

\* The value EOF of <stdio.h>.
EOF == -1

\* An exponent is counted up to ExponentMax: one that large or larger makes
\* of any number an infinity or a zero.
ExponentMax == 100000000

\* The number that acc and, after it, the n digits from position i on spell,
\* or ExponentMax.
RECURSIVE ExponentFrom(_, _, _, _)
ExponentFrom(str, i, n, acc) ==
    IF n = 0 THEN acc
    ELSE ExponentFrom(str, i + 1, n - 1, Min(ExponentMax, 10 * acc + HexValue(str[i])))

\* The exponent written at position i, after the exponent character: a sign
\* or none, and digits; 0 when there is no digit, for then the exponent
\* character is no part of the number.
ExponentAt(str, i) ==
    IF CharAt(str, i) = "-" THEN -ExponentFrom(str, i + 1, DigitRun(str, i + 1), 0)
    ELSE IF CharAt(str, i) = "+" THEN ExponentFrom(str, i + 1, DigitRun(str, i + 1), 0)
    ELSE ExponentFrom(str, i, DigitRun(str, i), 0)

\* The exponent of the number whose mantissa ends before position i, where
\* lower and upper are the exponent character.
ExponentAfter(str, i, lower, upper) ==
    IF CharAt(str, i) \in {lower, upper} THEN ExponentAt(str, i + 1) ELSE 0

\* The characters from position i on are those of the word, in either case.
Matches(str, i, lower, upper) ==
    \A j \in 1..Len(lower) : CharAt(str, i + j - 1) \in {lower[j], upper[j]}

\* The number of digits of a fraction at position i: those of the set
\* chars after a ".".
FractionRun(str, i, chars) ==
    IF CharAt(str, i) = "." THEN CharRun(str, i + 1, chars) ELSE 0

\* The length of a mantissa of ni digits, a point or none, and nf digits.
MantissaLen(str, at, ni, nf) == IF CharAt(str, at + ni) = "." THEN ni + 1 + nf ELSE ni

\* The digits of a mantissa as one number: ni before the point, nf after.
MantissaDigits(str, at, ni, nf) ==
    BAdd(BMul(DigitsValue(str, at, ni), BPow10(nf)), DigitsValue(str, at + ni + 1, nf))

\* The hexadecimal digits of a mantissa as one number.
HexMantissaDigits(str, at, ni, nf) ==
    BAdd(BShl(NumberFrom(str, at, ni, 16, <<>>), 4 * nf),
         NumberFrom(str, at + ni + 1, nf, 16, <<>>))

\* "inf" at position at, and after it "inity" or no "i".
ScannedInf(str, s, at) ==
    IF ~Matches(str, at, <<"i", "n", "f">>, <<"I", "N", "F">>) THEN [v |-> NaN, n |-> 0]
    ELSE IF CharAt(str, at + 3) \notin {"i", "I"} THEN [v |-> Inf(s), n |-> 1]
    ELSE IF Matches(str, at + 3, <<"i", "n", "i", "t", "y">>, <<"I", "N", "I", "T", "Y">>)
    THEN [v |-> Inf(s), n |-> 1]
    ELSE [v |-> NaN, n |-> 0]

\* A hexadecimal number, after its "0x": ni digits before the point and nf
\* after it.  "0x" and no more is no number; "0x." is read as the 0 of "0x".
ScannedHex(str, s, at, ni, nf) ==
    IF Strict(<<at, ni, nf>>, ni + nf = 0)
    THEN (IF CharAt(str, at) = "." THEN [v |-> Zero(s), n |-> 1] ELSE [v |-> NaN, n |-> 0])
    ELSE [v |-> FRound(s, HexMantissaDigits(str, at, ni, nf),
                       ExponentAfter(str, at + MantissaLen(str, at, ni, nf), "p", "P")
                         - 4 * nf),
          n |-> 1]

\* A decimal number: ni digits before the point and nf after it.
ScannedDecimal(str, s, at, ni, nf) ==
    IF Strict(<<at, ni, nf>>, ni + nf = 0) THEN [v |-> NaN, n |-> 0]
    ELSE [v |-> FDecimalScaled(s, MantissaDigits(str, at, ni, nf),
                               ExponentAfter(str, at + MantissaLen(str, at, ni, nf), "e", "E")
                                 - nf,
                               ni + nf),
          n |-> 1]

\* What "%lf" makes of str, where sg tells the sign and the start of the
\* number.  After "nan" nothing more is read.
ScannedDouble(str, sg) ==
    IF Strict(sg, sg.eof) THEN [v |-> NaN, n |-> EOF]
    ELSE IF CharAt(str, sg.at) \in {"n", "N"}
    THEN [v |-> NaN,
          n |-> IF Matches(str, sg.at, <<"n", "a", "n">>, <<"N", "A", "N">>) THEN 1 ELSE 0]
    ELSE IF CharAt(str, sg.at) \in {"i", "I"}
    THEN ScannedInf(str, IF sg.neg THEN 1 ELSE 0, sg.at)
    ELSE IF CharAt(str, sg.at) = "0" /\ CharAt(str, sg.at + 1) \in {"x", "X"}
    THEN ScannedHex(str, IF sg.neg THEN 1 ELSE 0, sg.at + 2,
                    CharRun(str, sg.at + 2, HexChars),
                    FractionRun(str, sg.at + 2 + CharRun(str, sg.at + 2, HexChars), HexChars))
    ELSE ScannedDecimal(str, IF sg.neg THEN 1 ELSE 0, sg.at, DigitRun(str, sg.at),
                        FractionRun(str, sg.at + DigitRun(str, sg.at), DigitChars))

\* sscanf(str, "%lf", &x): [v |-> the double stored, n |-> the value returned].
ScanDouble(str) == ScannedDouble(str, ScanSign(str))

\* 2^32 and UINT_MAX, for the 32-bit unsigned int.
UIntModulus == BShl(<<1>>, 32)
UIntMax == BSub(UIntModulus, <<1>>)

\* a - 1 in unsigned int arithmetic.
UIntPred(a) == IF a = <<>> THEN UIntMax ELSE BSub(a, <<1>>)

\* (-1)^s * v modulo 2^32, where low is v modulo 2^32.
UIntWrapped(neg, low) == IF neg /\ low # <<>> THEN BSub(UIntModulus, low) ELSE low

\* v modulo 2^32
UIntLow(v) == IF BCmp(v, UIntModulus) < 0 THEN v ELSE BDivMod(v, UIntModulus)[2]

\* INT_MAX and INT_MIN of <limits.h>.
INT_MAX == 2147483647
INT_MIN == -2147483647 - 1

\* The int whose 32 bits are those of the unsigned w.
IntOfBits(w) ==
    IF BCmp(w, BShl(<<1>>, 31)) < 0 THEN BToInt(w) ELSE -1 - BToInt(BSub(UIntMax, w))

\* (int) strtol(): the number (-1)^neg * v as a long, LONG_MAX or LONG_MIN when
\* a long does not hold it, cut to its 32 low bits.  2^63 is the first number
\* a long does not hold.
IntOfLong(neg, v) ==
    IF BCmp(v, BShl(<<1>>, 63)) >= 0 THEN (IF neg THEN 0 ELSE -1)
    ELSE IntOfBits(UIntWrapped(neg, UIntLow(v)))

\* What "%d" may store for the ni digits that spell v, after a "-" if neg.  An
\* int holds (-1)^neg * v when v < 2^31, and -2^31.
ScannedInt(neg, ni, v) ==
    IF Strict(<<ni, v>>, ni = 0) THEN {}
    ELSE IF BCmp(v, BShl(<<1>>, 31)) < 0 \/ (neg /\ v = BShl(<<1>>, 31))
    THEN {IntOfLong(neg, v)}
    ELSE {IntOfLong(neg, v), IF neg THEN INT_MIN ELSE INT_MAX}

\* sscanf(str, "%d", &x): the values that may be stored; none when nothing
\* is converted (sscanf returns 0 or EOF and leaves x alone).  A number that
\* an int holds is stored as it is.  For any other the C standard leaves the
\* behaviour undefined: the C library stores the low bits of the long that
\* strtol() returns, and it may as well come out as INT_MAX or INT_MIN.
ScanInt(str) ==
    ScannedInt(ScanSign(str).neg, DigitRun(str, ScanSign(str).at),
               DigitsValue(str, ScanSign(str).at, DigitRun(str, ScanSign(str).at)))

\* What "%u" may store for the ni digits that spell v, after a "-" if neg.
ScannedUnsigned(neg, ni, v) ==
    IF Strict(<<ni, v>>, ni = 0) THEN {}
    ELSE IF BCmp(v, UIntModulus) < 0 /\ (~neg \/ v = <<>>) THEN {v}
    ELSE {UIntWrapped(neg, UIntLow(v)), UIntMax}

\* sscanf(str, "%u", &x): the values that may be stored; none when nothing
\* is converted (sscanf returns 0 or EOF and leaves x alone).  A number that
\* an unsigned int holds is stored as it is.  For any other (too large, or
\* negative) the C standard leaves the behaviour undefined: the C libraries
\* reduce it modulo 2^32, and it may as well come out as UINT_MAX.
ScanUnsigned(str) ==
    ScannedUnsigned(ScanSign(str).neg, DigitRun(str, ScanSign(str).at),
                    DigitsValue(str, ScanSign(str).at, DigitRun(str, ScanSign(str).at)))

(***************************************************************************)
(* The three stages.                                                       *)
(***************************************************************************)
KelvinOffset == FDecimal(0, BFromInt(27315), 2)   \* 273.15
\* (1. / (273.15 + 25.)), a constant expression
InverseReferenceKelvin == FDiv(One, FAdd(KelvinOffset, FDecimal(0, BFromInt(25), 0)))

\* The voltage stage with the divisor ADC_Resolution in place of
\* ADC_Resolution - 1: a fault the property of row 128 has to detect.
VoltageDividedByResolution(Voltage_Divider_Bridge_Voltage, ADC_Res, ADC_Value) ==
    FDiv(FMul(Voltage_Divider_Bridge_Voltage, FFromNat(ADC_Value)), FFromNat(ADC_Res))

MainComputeVoltageDividerOutputVoltage(Voltage_Divider_Bridge_Voltage, ADC_Res, ADC_Value) ==
    FDiv(FMul(Voltage_Divider_Bridge_Voltage, FFromNat(ADC_Value)),
         FFromNat(UIntPred(ADC_Res)))

MainComputeThermistorResistance(Variant, Voltage_Divider_Bridge_Voltage, Voltage_Divider_Output_Voltage, Resistor) ==
    IF Variant = 1
    THEN FDiv(FMul(Voltage_Divider_Output_Voltage, Resistor),
              FSub(Voltage_Divider_Bridge_Voltage, Voltage_Divider_Output_Voltage))
    ELSE FSub(FDiv(FMul(Voltage_Divider_Bridge_Voltage, Resistor),
                   Voltage_Divider_Output_Voltage),
              Resistor)

\* fused tells the log() that runs.
MainComputeThermistorTemperature(fused, Beta, Reference_Resistance, Thermistor_Resistance) ==
    FSub(FDiv(One,
              FAdd(FDiv(FLog(fused, FDiv(Thermistor_Resistance, Reference_Resistance)), Beta),
                   InverseReferenceKelvin)),
         KelvinOffset)

\* Values[i], given its first two fields.
RowOfResistance(fused, Beta, R25, V, R) ==
    [Voltage_Divider_Output_Voltage |-> V,
     Thermistor_Resistance |-> R,
     Thermistor_Temperature |-> MainComputeThermistorTemperature(fused, Beta, R25, R)]

\* Values[i], given its first field.
RowOfVoltage(fused, Variant, Vcc, Resistor, Beta, R25, V) ==
    RowOfResistance(fused, Beta, R25, V, MainComputeThermistorResistance(Variant, Vcc, V, Resistor))

\* The three fields of Values[i] as the loop body computes them.
ComputedRow(fused, Variant, Vcc, Resistor, Beta, R25, ADC_Res, ADC_Value) ==
    RowOfVoltage(fused, Variant, Vcc, Resistor, Beta, R25,
                 MainComputeVoltageDividerOutputVoltage(Vcc, ADC_Res, ADC_Value))

(***************************************************************************)
(* main().                                                                 *)
(***************************************************************************)
MAIN_MAXIMUM_ADC_RESOLUTION == 65536
EXIT_SUCCESS == 0
EXIT_FAILURE == 1

\* The most options a command line of the model holds.
MaxOptions == 2

\* The arguments the options are given: numbers the program accepts, numbers
\* it has to refuse, and words that are no number.  3.95e3 is 3950; 1e308 is
\* a resistor so large that its product with a voltage above 1.797... is
\* beyond the largest double.
BetaArgs == {<<"3", ".", "9", "5", "e", "3">>, <<"x">>}
R25Args == {<<"4", "7", "0", "0">>, <<>>}
ResistorArgs == {<<"1", "e", "3", "0", "8">>, <<"k">>}
VoltageArgs == {<<"2", ".", "7">>, <<"-">>}
VariantArgs == {<<"1">>, <<"2">>, <<"3">>, <<"0">>, <<"-", "1">>, <<"x">>}
ResolutionArgs ==
    {<<"0">>, <<"1">>, <<"2">>, <<"4">>, <<"7">>, <<"\t", "4", "4">>,
     <<"6", "5", "5", "3", "7">>, <<"1", "0", "0", "0", "0", "0">>,
     <<"4", "2", "9", "4", "9", "6", "7", "2", "9", "7">>,
     <<"-", "5">>, <<"x">>}

VARIABLES
    pc,                              \* where main() is
    Parameter,                       \* what getopt() returned last
    optarg,                          \* the argument of that option
    optCount,                        \* how many options getopt() has returned
    ADC_Resolution,
    Circuit_Variant,
    Voltage_Divider_Bridge_Voltage,
    Voltage_Divider_Resistor,
    Thermistor_Beta_Coefficient,
    Thermistor_Reference_Resistance,
    i,
    Values,                          \* Values[0 .. Len(Values)-1] as written; the rest is still zero
    lastIndex,                       \* the index of the last access to Values
    out,                             \* what has been printed
    status,                          \* the exit status, once main() has returned
    fusedCPU                         \* the processor has a fused multiply-add

config == <<ADC_Resolution, Circuit_Variant, Voltage_Divider_Bridge_Voltage,
            Voltage_Divider_Resistor, Thermistor_Beta_Coefficient,
            Thermistor_Reference_Resistance>>
table == <<i, Values, lastIndex>>
vars == <<pc, Parameter, optarg, optCount, config, table, out, status, fusedCPU>>

\* 10^6: what "%lf" shows are millionths.
Millionths == BPow10(6)

\* printf("%lf", x): the text printed.  For a finite x it is the decimal
\* number of six decimals nearest to x, ties to even: n is its number of
\* millionths, s its sign.  An infinity is printed "inf" or "-inf"; a NaN is
\* printed "nan" or "-nan", and which of the two the model does not tell.
PrintedDouble(x) ==
    IF IsNaN(x) THEN [k |-> "nan", n |-> <<>>, s |-> 0]
    ELSE IF IsInf(x) THEN [k |-> "inf", n |-> <<>>, s |-> x.s]
    ELSE [k |-> "fin", n |-> BRounded(BMul(x.m, Millionths), x.e), s |-> x.s]

\* What is printed, piece by piece.
Event(t) == [t |-> t]
ErrorEvent(about) == [t |-> "error", about |-> about]
\* printf("%d\t\t%lf\t\t%lf\t\t\t%lf\n", i, Values[i]. ...)
RowEvent(code, row) ==
    [t |-> "row", code |-> code,
     voltage |-> PrintedDouble(row.Voltage_Divider_Output_Voltage),
     resistance |-> PrintedDouble(row.Thermistor_Resistance),
     temperature |-> PrintedDouble(row.Thermistor_Temperature)]

Init ==
    /\ pc = "start"
    /\ Parameter = "none"
    /\ optarg = <<>>
    /\ optCount = 0
    /\ ADC_Resolution = BFromInt(256)
    /\ Circuit_Variant = 1
    /\ Voltage_Divider_Bridge_Voltage = FDecimal(0, BFromInt(33), 1)
    /\ Voltage_Divider_Resistor = FDecimal(0, BFromInt(10000), 0)
    /\ Thermistor_Beta_Coefficient = FDecimal(0, BFromInt(4300), 0)
    /\ Thermistor_Reference_Resistance = FDecimal(0, BFromInt(10000), 0)
    /\ i = 0
    /\ Values = <<>>
    /\ lastIndex = -1
    /\ out = <<>>
    /\ status = -1
    /\ fusedCPU \in BOOLEAN

\* puts() of the banner.
DisplayBanner ==
    /\ pc = "start"
    /\ pc' = "getopt"
    /\ out' = Append(out, Event("banner"))
    /\ UNCHANGED <<Parameter, optarg, optCount, config, table, status, fusedCPU>>

\* return from main() with the given status, after printing the events.
Return(events, code) ==
    /\ pc' = "exit"
    /\ out' = out \o events
    /\ status' = code

\* break: back to the head of the option loop.
Break ==
    /\ pc' = "getopt"
    /\ UNCHANGED <<out, status>>

\* getopt() returns option letter with argument arg.
Getopt(letter, arg) ==
    /\ pc = "getopt"
    /\ optCount < MaxOptions
    /\ Parameter' = letter
    /\ optarg' = arg
    /\ optCount' = optCount + 1
    /\ UNCHANGED <<table, fusedCPU>>

\* An option whose argument is read as a double: the value to store, or the
\* error message and the usage.
DoubleOption(letter, arg, scanned) ==
    /\ Getopt(letter, arg)
    /\ IF scanned.n # 1
       THEN Return(<<ErrorEvent(letter), Event("usage")>>, EXIT_FAILURE)
       ELSE Break

\* What the variable holds afterwards: sscanf() stores nothing when it fails.
StoredDouble(scanned, old) == IF scanned.n # 1 THEN old ELSE scanned.v

OptionB ==
    \E arg \in BetaArgs : \E scanned \in {ScanDouble(arg)} :
        /\ DoubleOption("B", arg, scanned)
        /\ Thermistor_Beta_Coefficient' = StoredDouble(scanned, Thermistor_Beta_Coefficient)
        /\ UNCHANGED <<ADC_Resolution, Circuit_Variant, Voltage_Divider_Bridge_Voltage,
                       Voltage_Divider_Resistor, Thermistor_Reference_Resistance>>

OptionR ==
    \E arg \in R25Args : \E scanned \in {ScanDouble(arg)} :
        /\ DoubleOption("R", arg, scanned)
        /\ Thermistor_Reference_Resistance' = StoredDouble(scanned, Thermistor_Reference_Resistance)
        /\ UNCHANGED <<ADC_Resolution, Circuit_Variant, Voltage_Divider_Bridge_Voltage,
                       Voltage_Divider_Resistor, Thermistor_Beta_Coefficient>>

Optionr ==
    \E arg \in ResistorArgs : \E scanned \in {ScanDouble(arg)} :
        /\ DoubleOption("r", arg, scanned)
        /\ Voltage_Divider_Resistor' = StoredDouble(scanned, Voltage_Divider_Resistor)
        /\ UNCHANGED <<ADC_Resolution, Circuit_Variant, Voltage_Divider_Bridge_Voltage,
                       Thermistor_Beta_Coefficient, Thermistor_Reference_Resistance>>

Optionv ==
    \E arg \in VoltageArgs : \E scanned \in {ScanDouble(arg)} :
        /\ DoubleOption("v", arg, scanned)
        /\ Voltage_Divider_Bridge_Voltage' = StoredDouble(scanned, Voltage_Divider_Bridge_Voltage)
        /\ UNCHANGED <<ADC_Resolution, Circuit_Variant, Voltage_Divider_Resistor,
                       Thermistor_Beta_Coefficient, Thermistor_Reference_Resistance>>

\* The test of the resolution against twice the size of the table: a fault
\* the bound on the table's indices has to detect.
ResolutionTooLargeForTwice(n) == BCmp(n, BFromInt(2 * MAIN_MAXIMUM_ADC_RESOLUTION)) > 0

\* if (ADC_Resolution > MAIN_MAXIMUM_ADC_RESOLUTION)
ResolutionTooLarge(n) == BCmp(n, BFromInt(MAIN_MAXIMUM_ADC_RESOLUTION)) > 0

Optiona ==
    \E arg \in ResolutionArgs : \E scanned \in {ScanUnsigned(arg)} :
        /\ Getopt("a", arg)
        /\ UNCHANGED <<Circuit_Variant, Voltage_Divider_Bridge_Voltage, Voltage_Divider_Resistor,
                       Thermistor_Beta_Coefficient, Thermistor_Reference_Resistance>>
        /\ IF scanned = {}
           THEN /\ Return(<<ErrorEvent("a"), Event("usage")>>, EXIT_FAILURE)
                /\ UNCHANGED ADC_Resolution
           ELSE \E n \in scanned :
                    /\ ADC_Resolution' = n
                    /\ IF ResolutionTooLarge(n)
                       THEN Return(<<ErrorEvent("a")>>, EXIT_FAILURE)
                       ELSE Break

\* if ((Circuit_Variant < 1) || (Circuit_Variant > 2))
VariantOutOfRange(v) == v < 1 \/ v > 2

Optionc ==
    \E arg \in VariantArgs : \E scanned \in {ScanInt(arg)} :
        /\ Getopt("c", arg)
        /\ UNCHANGED <<ADC_Resolution, Voltage_Divider_Bridge_Voltage, Voltage_Divider_Resistor,
                       Thermistor_Beta_Coefficient, Thermistor_Reference_Resistance>>
        /\ IF scanned = {}
           THEN /\ Return(<<ErrorEvent("c"), Event("usage")>>, EXIT_FAILURE)
                /\ UNCHANGED Circuit_Variant
           ELSE \E v \in scanned :
                    /\ Circuit_Variant' = v
                    /\ IF VariantOutOfRange(v)
                       THEN Return(<<ErrorEvent("c"), Event("usage")>>, EXIT_FAILURE)
                       ELSE Break

\* case 'h' returning EXIT_FAILURE: a fault the property of -h has to detect.
OptionhFailure ==
    /\ Getopt("h", <<>>)
    /\ Return(<<Event("usage")>>, EXIT_FAILURE)
    /\ UNCHANGED config

\* case 'h'
Optionh ==
    /\ Getopt("h", <<>>)
    /\ Return(<<Event("usage")>>, EXIT_SUCCESS)
    /\ UNCHANGED config

\* case '?': an option getopt() does not know, or one that lacks its
\* argument; getopt() has printed its own message.
OptionUnknown ==
    /\ Getopt("?", <<>>)
    /\ Return(<<Event("getopt_message"), Event("newline"), Event("usage")>>, EXIT_FAILURE)
    /\ UNCHANGED config

\* getopt() returns -1: the options are exhausted.
OptionsEnd ==
    /\ pc = "getopt"
    /\ Parameter' = "-1"
    /\ optarg' = <<>>
    /\ pc' = "compute"
    /\ i' = 0
    /\ UNCHANGED <<optCount, config, Values, lastIndex, out, status, fusedCPU>>

\* i <= ADC_Resolution as the condition of the loops: a fault the property
\* of the rows has to detect.
LoopConditionInclusive(index, n) == BCmp(BFromInt(index), n) <= 0

\* i < ADC_Resolution, the condition of both loops.
LoopCondition(index, n) == BCmp(BFromInt(index), n) < 0

\* Values[index] = row, in the table of MAIN_MAXIMUM_ADC_RESOLUTION entries.
\* A write beyond the table is undefined behaviour; the table is then left
\* as it is and lastIndex tells.
Store(tbl, index, row) ==
    IF index < Len(tbl) THEN [tbl EXCEPT ![index + 1] = row]
    ELSE IF index = Len(tbl) /\ index < MAIN_MAXIMUM_ADC_RESOLUTION THEN Append(tbl, row)
    ELSE tbl

\* One turn of the first loop.
ComputeStep ==
    /\ pc = "compute"
    /\ LoopCondition(i, ADC_Resolution)
    /\ Values' = Store(Values, i,
                       ComputedRow(fusedCPU, Circuit_Variant, Voltage_Divider_Bridge_Voltage,
                                   Voltage_Divider_Resistor, Thermistor_Beta_Coefficient,
                                   Thermistor_Reference_Resistance, ADC_Resolution,
                                   BFromInt(i)))
    /\ lastIndex' = i
    /\ i' = i + 1
    /\ UNCHANGED <<pc, Parameter, optarg, optCount, config, out, status, fusedCPU>>

\* The first loop ends; the header of the table is printed.
ComputeEnd ==
    /\ pc = "compute"
    /\ ~LoopCondition(i, ADC_Resolution)
    /\ pc' = "display"
    /\ out' = Append(out, Event("header"))
    /\ i' = 0
    /\ UNCHANGED <<Parameter, optarg, optCount, config, Values, lastIndex, status, fusedCPU>>

\* One turn of the second loop: the printf() of row i.
DisplayStep ==
    /\ pc = "display"
    /\ LoopCondition(i, ADC_Resolution)
    /\ out' = Append(out, RowEvent(i, Values[i + 1]))
    /\ lastIndex' = i
    /\ i' = i + 1
    /\ UNCHANGED <<pc, Parameter, optarg, optCount, config, Values, status, fusedCPU>>

\* The second loop ends: return EXIT_SUCCESS.
DisplayEnd ==
    /\ pc = "display"
    /\ ~LoopCondition(i, ADC_Resolution)
    /\ pc' = "exit"
    /\ status' = EXIT_SUCCESS
    /\ UNCHANGED <<Parameter, optarg, optCount, config, table, out, fusedCPU>>

Next ==
    \/ DisplayBanner
    \/ OptionB
    \/ OptionR
    \/ Optiona
    \/ Optionc
    \/ Optionh
    \/ Optionr
    \/ Optionv
    \/ OptionUnknown
    \/ OptionsEnd
    \/ ComputeStep
    \/ ComputeEnd
    \/ DisplayStep
    \/ DisplayEnd

Spec == Init /\ [][Next]_vars

(***************************************************************************)
(* The properties.  A row is looked at where it is computed or printed:    *)
(* LastRow is the row the first loop has just stored, of code LastCode.    *)
(***************************************************************************)
Dec(D, k) == FDecimal(0, BFromInt(D), k)
FAbs(a) == IF IsNaN(a) THEN NaN ELSE [a EXCEPT !.s = 0]
Within(x, lo, hi) == FLe(lo, x) /\ FLe(x, hi)
Positive(x) == FLt(Zero(0), x)

TableSize == BFromInt(MAIN_MAXIMUM_ADC_RESOLUTION)
Computing == pc = "compute" /\ i >= 1 /\ Len(Values) >= i
LastCode == i - 1
LastRow == Values[i]
IsLastCode == BCmp(BFromInt(i), ADC_Resolution) = 0
AtLeastTwo == BCmp(ADC_Resolution, <<2>>) >= 0
TablePrinted == \E k \in 1..Len(out) : out[k].t \in {"header", "row"}

\* C1: while the table is printed, the rows printed so far are those of the
\* codes 0 .. i-1 in this order, each the row computed for its code, and
\* i <= ADC_Resolution; a run that has read all its options and has returned
\* has returned EXIT_SUCCESS after the banner, the header and exactly the
\* ADC_Resolution rows of the codes 0, 1, ..., ADC_Resolution - 1 in
\* ascending order, whatever the values of the rows.
C1_RowsInCodeOrder ==
    /\ pc = "display" =>
          /\ Len(out) = i + 2
          /\ BCmp(BFromInt(i), ADC_Resolution) <= 0
          /\ i >= 1 => out[i + 2] = RowEvent(i - 1, Values[i])
    /\ (pc = "exit" /\ Parameter = "-1") =>
          /\ status = EXIT_SUCCESS
          /\ BCmp(BFromInt(Len(out) - 2), ADC_Resolution) = 0
          /\ out[1] = Event("banner")
          /\ out[2] = Event("header")
          /\ \A c \in 0..(Len(out) - 3) : out[c + 3] = RowEvent(c, Values[c + 1])

\* A run of seven rows has returned, and the resistance of one of its rows
\* is printed as an infinity.
C1_Witness ==
    /\ pc = "exit"
    /\ Parameter = "-1"
    /\ ADC_Resolution = <<7>>
    /\ Len(out) = 9
    /\ \E k \in 3..9 : out[k].resistance.k = "inf"

\* What the specification counts as an option that fails: an argument that
\* is no number, a variant other than 1 and 2, a resolution above 65536, an
\* unknown option.
ArgumentFails(letter, arg) ==
    CASE letter \in {"B", "R", "r", "v"} -> ScanDouble(arg).n # 1
      [] letter = "c" ->
            LET sg == ScanSign(arg)
                ni == DigitRun(arg, sg.at)
            IN  \/ ni = 0
                \/ sg.neg
                \/ DigitsValue(arg, sg.at, ni) \notin {<<1>>, <<2>>}
      [] letter = "a" ->
            LET sg == ScanSign(arg)
                ni == DigitRun(arg, sg.at)
            IN  \/ ni = 0
                \/ ~sg.neg /\ BCmp(DigitsValue(arg, sg.at, ni), TableSize) > 0
      [] letter = "?" -> TRUE
      [] OTHER -> FALSE

\* C2: once an option that fails has been handled, main() has returned a
\* status other than EXIT_SUCCESS, and neither the header nor a row of the
\* table has been printed.
C2_FailingOptionEndsRun ==
    ArgumentFails(Parameter, optarg) =>
        /\ pc = "exit"
        /\ status # EXIT_SUCCESS
        /\ ~TablePrinted

\* C3: a run that an option's argument has made fail has printed, last of
\* all, the error message of that option and then the usage.
C3_ErrorThenUsage ==
    (pc = "exit" /\ status # EXIT_SUCCESS /\ Parameter \in {"B", "R", "a", "c", "r", "v"}) =>
        /\ Len(out) >= 2
        /\ out[Len(out) - 1] = ErrorEvent(Parameter)
        /\ out[Len(out)] = Event("usage")

\* C4: while the table is computed and printed, 2 <= ADC_Resolution <= 65536.
C4_ResolutionInRange ==
    pc \in {"compute", "display"} =>
        /\ AtLeastTwo
        /\ BCmp(ADC_Resolution, TableSize) <= 0

\* The values the program starts with, and the ranges of row 128.
DefaultValues ==
    <<BFromInt(256), 1, Dec(33, 1), Dec(10000, 0), Dec(4300, 0), Dec(10000, 0)>>
DefaultConfig == config = DefaultValues
Row128Computed == DefaultConfig /\ Len(Values) >= 129
Row128Printed == pc = "display" /\ i >= 129
VoltageLow == Dec(16564705, 7)
VoltageHigh == Dec(16564715, 7)
ResistanceLow == Dec(99779526, 4)
ResistanceHigh == Dec(101795274, 4)
TemperatureLow == Dec(2434, 2)
TemperatureHigh == Dec(2534, 2)
StatedVoltageLow == Dec(166465, 5)
StatedVoltageHigh == Dec(166475, 5)
StatedResistanceLow == Dec(97114, 1)
StatedResistanceHigh == Dec(99076, 1)
StatedTemperatureLow == Dec(25, 0)
StatedTemperatureHigh == Dec(26, 0)

\* C5 (as amended): with the default values, the row of code 128 has a
\* voltage of 1.656471 to six decimals, a resistance within 1% of 10078.74
\* and a temperature within 0.5 of 24.84, and the row printed for code 128
\* is this row: its voltage is printed 1.656471.
C5_Row128 ==
    Row128Computed =>
        /\ Within(Values[129].Voltage_Divider_Output_Voltage, VoltageLow, VoltageHigh)
        /\ Within(Values[129].Thermistor_Resistance, ResistanceLow, ResistanceHigh)
        /\ Within(Values[129].Thermistor_Temperature, TemperatureLow, TemperatureHigh)
        /\ Row128Printed =>
              /\ out[131] = RowEvent(128, Values[129])
              /\ out[131].voltage = [k |-> "fin", n |-> BFromInt(1656471), s |-> 0]

\* The run with the default values has printed the row of code 128.
C5_Witness == DefaultConfig /\ Row128Printed /\ optCount = 0

\* C5 (as stated): with the default values, the row of code 128 has a
\* voltage of 1.6647 to four decimals, a resistance in [9711.4, 9907.6] and
\* a temperature in [25.0, 26.0].
C5_Row128AsStated ==
    Row128Computed =>
        /\ Within(Values[129].Voltage_Divider_Output_Voltage,
                  StatedVoltageLow, StatedVoltageHigh)
        /\ Within(Values[129].Thermistor_Resistance,
                  StatedResistanceLow, StatedResistanceHigh)
        /\ Within(Values[129].Thermistor_Temperature,
                  StatedTemperatureLow, StatedTemperatureHigh)

\* The rows the boundary claims are about: the resolution is 2 or more, the
\* bridge voltage and the bridge resistor are positive.
BoundaryCase ==
    /\ Computing
    /\ AtLeastTwo
    /\ Positive(Voltage_Divider_Bridge_Voltage)
    /\ Positive(Voltage_Divider_Resistor)

\* The divisor of the resistance stage is zero.
ZeroDivisor(row) ==
    IF Circuit_Variant = 1
    THEN IsZero(FSub(Voltage_Divider_Bridge_Voltage, row.Voltage_Divider_Output_Voltage))
    ELSE IsZero(row.Voltage_Divider_Output_Voltage)

AtBoundary ==
    \/ Circuit_Variant = 1 /\ IsLastCode
    \/ Circuit_Variant = 2 /\ LastCode = 0

\* C6: the row of the last code in variant 1, and the row of code 0 in
\* variant 2, has the resistance +infinity, and no other row has a zero
\* divisor.
C6_InfiniteAtBoundary ==
    BoundaryCase =>
        IF AtBoundary
        THEN LastRow.Thermistor_Resistance = Inf(0)
        ELSE ~ZeroDivisor(LastRow)

\* C7: the voltage of code 0 is 0, the voltage of the last code is the
\* bridge voltage, no voltage is below that of the code before, and every
\* voltage is in [0, bridge voltage].
C7_VoltageRange ==
    BoundaryCase =>
        LET V == LastRow.Voltage_Divider_Output_Voltage
        IN  /\ LastCode = 0 => IsZero(V)
            /\ IsLastCode => FEq(V, Voltage_Divider_Bridge_Voltage)
            /\ LastCode >= 1 => FLe(Values[i - 1].Voltage_Divider_Output_Voltage, V)
            /\ Within(V, Zero(0), Voltage_Divider_Bridge_Voltage)

\* C8: when -h is the only option, main() has returned EXIT_SUCCESS after
\* the banner and the usage and nothing else, and no row has been computed.
C8_HelpAlone ==
    (pc = "exit" /\ Parameter = "h" /\ optCount = 1) =>
        /\ status = EXIT_SUCCESS
        /\ out = <<Event("banner"), Event("usage")>>
        /\ Values = <<>>
        /\ lastIndex = -1

\* -h, as the first option, has been handled.
C8_Witness == pc = "exit" /\ Parameter = "h" /\ optCount = 1 /\ Len(out) = 2

\* The forward equation of the divider, the output voltage the thermistor
\* resistance R gives: Vcc * R / (R_bridge + R) in variant 1 and
\* Vcc * R_bridge / (R + R_bridge) in variant 2.  The program has no such
\* stage (src/Main.c computes the resistance from the voltage only); the
\* expressions are those property C9 is stated with, taken in double
\* arithmetic in the order they are written.
ForwardDivider(Variant, Vcc, R, Resistor) ==
    IF Variant = 1
    THEN FDiv(FMul(Vcc, R), FAdd(Resistor, R))
    ELSE FDiv(FMul(Vcc, Resistor), FAdd(R, Resistor))

\* The rows the round trip is about: 0 < V < Vcc, a positive bridge resistor.
RoundTripCase ==
    /\ Computing
    /\ Positive(LastRow.Voltage_Divider_Output_Voltage)
    /\ FLt(LastRow.Voltage_Divider_Output_Voltage, Voltage_Divider_Bridge_Voltage)
    /\ Positive(Voltage_Divider_Resistor)

RoundTrip ==
    ForwardDivider(Circuit_Variant, Voltage_Divider_Bridge_Voltage,
                   LastRow.Thermistor_Resistance, Voltage_Divider_Resistor)

\* 2^-20, about one part in a million: a tolerance far wider than what the
\* rounding of a few operations on doubles, 2^-53 each, asks for.
RoundTripTolerance == FDiv(One, FFromNat(BShl(<<1>>, 20)))

\* C9: for both circuit variants and every V with 0 < V < Vcc and a positive
\* bridge resistor, the forward equation applied to the resistance computed
\* from V gives V again, here even allowed a relative error of 2^-20.  The
\* program does not keep to it: with the bridge resistor 1e308 the product
\* V * R_bridge (variant 1, V above 1.797...) or Vcc * R_bridge (variant 2)
\* is beyond the largest double, the resistance stored is +infinity, and the
\* forward equation gives NaN.
C9_RoundTripReproduces ==
    RoundTripCase =>
        LET V == LastRow.Voltage_Divider_Output_Voltage
        IN  FLe(FAbs(FSub(RoundTrip, V)), FMul(V, RoundTripTolerance))

\* C10: every index at which Values has been read or written is in
\* 0 .. 65535: the loops go on while i < ADC_Resolution, and ADC_Resolution
\* is at most 65536 once the options have been read.
C10_IndexInTable ==
    /\ lastIndex >= -1
    /\ lastIndex < MAIN_MAXIMUM_ADC_RESOLUTION
    /\ pc \in {"compute", "display"} =>
          /\ BCmp(ADC_Resolution, TableSize) <= 0
          /\ BCmp(BFromInt(i), ADC_Resolution) <= 0
          /\ lastIndex < Max(i, Len(Values))

\* The table of a run with two options, one of them -a 44, has been read at
\* its last index.
C10_Witness == pc = "display" /\ optCount = 2 /\ i = 44 /\ lastIndex = 43
====
